---- MODULE Spec2Model ----
(***************************************************************************)
(* A state-machine model of the race / scheduling core of frostexx/antumgo. *)
(*                                                                         *)
(* The repository holds three implementations of the "two races run side   *)
(* by side" orchestration and three implementations of the scheduler wait: *)
(*                                                                         *)
(*   engine     QuantumEngine.ExecuteQuantumWithdrawal   (part_004)        *)
(*   wallet     QuantumWallet.ExecuteQuantumSupremacy    (quantum_wallet)  *)
(*   direct     QuantumWallet.QuantumClaimBalance or QuantumTransfer       *)
(*              called on its own: one race, no orchestrator               *)
(*   processor  ConcurrentProcessor.ExecuteIndependentOperations           *)
(*   timer      QuantumSleepUntil, QuantumTimer.WaitUntilQuantumMoment,    *)
(*              QuantumWallet.waitForQuantumMoment                         *)
(*   fees       FeeWarfareEngine, QuantumCore.CalculateWarfareFee,         *)
(*              QuantumEngine.calculateDominanceFee with NeuralNetwork,    *)
(*              called one after the other                                 *)
(*   analytics  FeeWarfareEngine used by several goroutines at once: its   *)
(*              RWMutex, concurrent CalculateWarfareFee calls and the      *)
(*              GetWarfareAnalytics reader                                 *)
(*   stats      ConcurrentProcessor's workers with its counters and the    *)
(*              GetOperationStats reader                                   *)
(*   core       QuantumCore's task queue, dispatcher and worker pool       *)
(*   retry      util.QuantumRetry                                          *)
(*   legacy     Server.startLegacyMonitoring                               *)
(*   session    Server.QuantumWithdraw and the mempool monitor it starts   *)
(*                                                                         *)
(* One run of the model is one run of one of them: sys is chosen in Init   *)
(* and never changes, so the reachable states are the disjoint union of    *)
(* the state machines.                                                 *)
(***************************************************************************)
EXTENDS Integers, FiniteSets, Sequences, TLC

(***************************************************************************)
(* Bounds of the model.                                                    *)
(***************************************************************************)
\* workers per race (claimWorkers, transferWorkers, parallelClaims,
\* maxConcurrentOps are 1000 in the source)
NumWorkers == 2
\* the host clock runs from Epoch to Epoch + MaxClock
MaxClock == 2
\* the host clock's first value; UnixNano is about 1.7e18 today, far above
\* anything the wrapped TSC conversion below can produce
Epoch == 100
\* width of the machine word of the TSC conversion (64 in the source)
WordBits == 4
\* clock ticks per second (1000000000 in the source)
TicksPerSecond == 4
\* clock ticks per time.Millisecond, the safety margin of the waits
TicksPerMs == 1
\* largest magnitude of the stored drift correction
MaxDrift == 1
\* largest of the small (near 1970) targets handed to a wait
MaxLowTarget == 2
\* attempts of one engine worker that are counted one by one: the retry
\* loop has no bound of its own, so the count stops there
MaxCounted == 2

\* len(feeHistory) is capped at MaxHistory (1000 in the source)
MaxHistory == 2
\* Learn starts a training batch once TrainThreshold examples are stored
\* (100 in the source)
TrainThreshold == 2
\* len(trainingData) is capped at MaxTraining (10000 in the source)
MaxTraining == 3
\* training batches followed
MaxEpochs == 2

\* getBaseFee / calculateDominanceFee
BaseFeeClaim == 9400000
BaseFeeTransfer == 3200000
DefaultBaseFee == 1000000
\* NewFeeWarfareEngine: maxFeeLimit
MaxFeeLimit == 50000000
\* escalationFactor 2.5, "baseFee * 250 / 100"
EscalationPercent == 250
Percent == 100
\* isCompetitorTransaction: fees above this are a competitor's
CompetitorThreshold == 1000000
\* float64 factors are kept in tenths
Tenth == 10
\* callers of ExecuteQuantumTask, each making one call
MaxCallers == 3
\* capacity of QuantumCore.taskQueue (10000 in the source)
QueueCap == 1
\* capacity of a pool's taskChan and resultChan per worker (10 in the source)
PoolFactor == 1
\* the largest maxAttempts passed to QuantumRetry
MaxRetryAttempts == 4
\* the base delays passed to QuantumRetry are 0 .. MaxBaseDelay, in units of
\* DelayUnit
MaxBaseDelay == 2
DelayUnit == 15
\* the latest unlock time of a locked balance, in seconds after the start of
\* the legacy monitoring
MaxClaimableAt == 2
\* startLegacyMonitoring: time.NewTicker(1 * time.Second)
LegacyTickSeconds == 1
\* startLegacyMonitoring: time.Sleep(2 * time.Second)
BalanceWaitSeconds == 2
\* startQuantumMonitoring returns on its tick number MonitorTicks (51 in the
\* source)
MonitorTicks == 2
\* GetWarfareAnalytics: getRecentFeeHistory(10)
RecentLimit == 10
\* PredictOptimalFee: math.Max(1.0, math.Min(10.0, output[0])), in tenths
MinMultiplier == 10
MaxMultiplier == 100

Workers == 1..NumWorkers
Races == {"claim", "transfer"}
Systems == {"engine", "wallet", "direct", "processor", "timer", "fees", "analytics", "stats", "core", "retry", "legacy", "session"}

Operations == {"claim", "transfer"}
\* fees seen in the mempool: below the competitor threshold, a known
\* competitor fee, and fees whose escalation is above the limit
ObservedFees == {500000, BaseFeeTransfer, 30000000, 100000000}
\* urgency (1.0 normal, 2.0 critical) and congestion, in tenths
Urgencies == {10, 20}
Congestions == {0, 5, 10}
NoCall == [fn |-> "none"]
NoAnalytics == [returned |-> FALSE]
NoStats == [returned |-> FALSE]
NoRetry == [pc |-> "idle"]
NoLegacy == [pc |-> "idle"]
NoSession == [pc |-> "idle"]
Callers == 1..MaxCallers
\* the worker pools (initializeWorkerPools starts four alike: claim,
\* transfer, monitor, flood) and the task types a caller may pass
Pools == {"claim"}
TaskTypes == {"claim", "unknown"}
PoolCap == NumWorkers * PoolFactor

Millisecond == TicksPerMs
WordModulus == 2 ^ WordBits
\* time.Time{}: the zero time, below every clock value
ZeroTime == 0 - 1
ClockValues == Epoch..(Epoch + MaxClock)
UnlockTimes == ClockValues
Targets == {ZeroTime} \cup (1..MaxLowTarget) \cup (Epoch..(Epoch + MaxClock))

VARIABLES
    sys,              \* the implementation this run is about
    now,              \* the host clock (time.Now)
    nanoTiming,       \* QuantumWallet.nanoTiming
    cpuFrequency,     \* QuantumTimer.cpuFrequency
    driftCorrection,  \* QuantumTimer.driftCorrection
    validPayload,     \* engine: the transfer's amount parses as a number and its
                      \* address is a 56 character "G..." string
    unlockTime,       \* the unlock time handed to the orchestrator
    opc,              \* orchestrator: "idle", "running", "returned" ("direct":
                      \* a race was called without it)
    oresult,          \* orchestrator's return value: "none", "nil", "partial", "error"
    cpc,              \* per race, the coordinator's position
    cresult,          \* per race, the coordinator's return value
    cwake,            \* per race, the instant the coordinator's sleep ends
    wpc,              \* per race and worker, the worker's position
    claimedBy,        \* per race, the workers that raised the race-won signal
    attempts,         \* QuantumEngine.attemptCount by race and worker: the
                      \* attempts the worker has invoked (counted up to MaxCounted)
    chanClosed,       \* per race, whether the stop / success channel is closed
    chanBuf,          \* per race, tokens in the success channel's buffer (cap 1)
    ctxDone,          \* per race, whether the race's context is cancelled
    panicked,         \* a goroutine panicked: the process is gone
    tkind,            \* timer: which wait was called
    ttarget,          \* timer: its targetTime
    tpc,              \* timer: position in the wait
    tcall,            \* timer: host clock at the call
    twake,            \* timer: instant the pending sleep / timer ends
    tslept,           \* timer: a coarse sleep (or timer wait) was performed
    tspun,            \* timer: a spin iteration (runtime.Gosched) was performed
    tread,            \* timer: the last clock value the wait read
    competitorFees,   \* FeeWarfareEngine.competitorFees (0: no entry)
    networkCongestion,\* FeeWarfareEngine.networkCongestion, in tenths
    warfareEnabled,   \* FeeWarfareEngine.warfareEnabled
    feeHistory,       \* len(FeeWarfareEngine.feeHistory)
    trainingData,     \* len(NeuralNetwork.trainingData)
    pendingTrain,     \* started trainBatch goroutines that have not run yet
    epochs,           \* NeuralNetwork.epochs: the batches that have updated the
                      \* weights and biases, standing for their values
    fcall,            \* the last fee computation since the fee inputs changed:
                      \* function, arguments, result
    readers,          \* FeeWarfareEngine.mu: the goroutines holding the read lock
    calcpc,           \* per caller of CalculateWarfareFee, its position
    calclen,          \* per caller inside append: the len(feeHistory) it read
    analytics,        \* the map last returned by GetWarfareAnalytics
    opAttempts,       \* ConcurrentProcessor.claimAttempts, .transferAttempts
    successCount,     \* ConcurrentProcessor.successCount
    stats,            \* the OperationStats last returned by GetOperationStats
    taskQueue,        \* QuantumCore.taskQueue: the queued tasks, oldest first
    taskChan,         \* the pool's taskChan: the routed tasks, oldest first
    resultChan,       \* the pool's resultChan: the number of buffered results
    active,           \* WorkerPool.active
    completed,        \* WorkerPool.completed
    poolpc,           \* per pool worker: "idle" (receiving) or "deliver"
    call,             \* per caller of ExecuteQuantumTask: "idle", "waiting" (on
                      \* task.ResultChan), or the result returned to it
    retry,            \* the running call of QuantumRetry: its arguments, loop
                      \* variables, the operation calls and sleeps it has made,
                      \* and its return value
    legacy,           \* the running call of startLegacyMonitoring: its position,
                      \* claimableAt, the time (seconds, up to LegacyHorizon),
                      \* attemptCount, the responses sent, the calls of
                      \* ClaimBalance and Transfer (all counted up to
                      \* MaxCounted) and whether one of them has succeeded
    session,          \* one call of the handler QuantumWithdraw: its position,
                      \* the request, the responses sent, warfareCtx, what it
                      \* has started, and the position and polls of the
                      \* goroutine of StartMempoolMonitoring
    history           \* the contents of fwe.feeHistory: the snapshots it holds
                      \* (seq, each named by its arrival number modulo
                      \* SnapshotIds), the latest snapshot made (last), how many
                      \* were made (total, counted up to MaxHistory), and per
                      \* caller inside append the slice it read and its own
                      \* snapshot

cfgVars == <<sys, nanoTiming, cpuFrequency, driftCorrection, validPayload>>
orchVars == <<opc, oresult, unlockTime>>
coordVars == <<cpc, cresult, cwake>>
workVars == <<wpc, claimedBy, attempts>>
chanVars == <<chanClosed, chanBuf>>
timerVars == <<tkind, ttarget, tpc, tcall, twake, tslept, tspun, tread>>
warfareVars == <<competitorFees, networkCongestion, warfareEnabled, feeHistory>>
netVars == <<trainingData, pendingTrain, epochs>>
lockVars == <<readers, calcpc, calclen, analytics>>
feeVars == <<warfareVars, netVars, fcall, lockVars>>
statVars == <<opAttempts, successCount, stats>>
coreVars == <<taskQueue, taskChan, resultChan, active, completed, poolpc, call>>
extVars == <<retry, legacy, session, history>>
baseVars == <<cfgVars, now, orchVars, coordVars, workVars, chanVars, ctxDone, panicked, timerVars, feeVars, statVars, coreVars>>
vars == <<cfgVars, now, orchVars, coordVars, workVars, chanVars, ctxDone, panicked, timerVars, feeVars, statVars, coreVars, extVars>>

\* a wait that ends as soon as one worker is done
AllDone_Some(r) == \E i \in Workers : wpc[r][i] = "done"

\* wg.Wait() can return: every worker of race r has run its wg.Done()
AllDone(r) == \A i \in Workers : wpc[r][i] = "done"

Init ==
    /\ sys \in Systems
    /\ now = Epoch
    /\ nanoTiming = TRUE
    /\ cpuFrequency \in IF sys = "timer" THEN {TicksPerSecond, TicksPerSecond + 1} ELSE {TicksPerSecond}
    /\ driftCorrection \in IF sys = "timer" THEN (0 - MaxDrift)..MaxDrift ELSE {0}
    /\ validPayload \in IF sys = "engine" THEN BOOLEAN ELSE {TRUE}
    /\ unlockTime = ZeroTime
    /\ opc = "idle"
    /\ oresult = "none"
    /\ cpc = [r \in Races |-> "idle"]
    /\ cresult = [r \in Races |-> "none"]
    /\ cwake = [r \in Races |-> ZeroTime]
    /\ wpc = [r \in Races |-> [i \in Workers |-> "idle"]]
    /\ claimedBy = [r \in Races |-> {}]
    /\ attempts = [r \in Races |-> [i \in Workers |-> 0]]
    /\ chanClosed = [r \in Races |-> FALSE]
    /\ chanBuf = [r \in Races |-> 0]
    /\ ctxDone = [r \in Races |-> FALSE]
    /\ panicked = FALSE
    /\ tkind = "none"
    /\ ttarget = ZeroTime
    /\ tpc = "idle"
    /\ tcall = ZeroTime
    /\ twake = ZeroTime
    /\ tslept = FALSE
    /\ tspun = FALSE
    /\ tread = ZeroTime
    /\ competitorFees = [op \in Operations |-> 0]
    /\ networkCongestion = 0
    /\ warfareEnabled = TRUE
    /\ feeHistory = 0
    /\ trainingData = 0
    /\ pendingTrain = 0
    /\ epochs = 0
    /\ fcall = NoCall
    /\ readers = {}
    /\ calcpc = [w \in Workers |-> "idle"]
    /\ calclen = [w \in Workers |-> 0]
    /\ analytics = NoAnalytics
    /\ opAttempts = [r \in Races |-> 0]
    /\ successCount = 0
    /\ stats = NoStats
    /\ taskQueue = <<>>
    /\ taskChan = <<>>
    /\ resultChan = 0
    /\ active = 0
    /\ completed = 0
    /\ poolpc = [w \in Workers |-> "idle"]
    /\ call = [c \in Callers |-> "idle"]
    /\ retry = NoRetry
    /\ legacy = NoLegacy
    /\ session = NoSession
    /\ history = [seq |-> <<>>, last |-> 0, total |-> 0,
                  read |-> [w \in Workers |-> <<>>], own |-> [w \in Workers |-> 0]]

(***************************************************************************)
(* The host clock.  It is read only by the waits, so it advances only      *)
(* while a wait can still read it.                                         *)
(***************************************************************************)
ClockIsRead ==
    IF sys = "timer"
    THEN tpc # "returned"
    ELSE \E r \in Races : cpc[r] \in {"wait", "sleeping"}

Tick ==
    /\ ~panicked
    /\ now < Epoch + MaxClock
    /\ ClockIsRead
    /\ now' = now + 1
    /\ UNCHANGED <<cfgVars, orchVars, coordVars, workVars, chanVars, ctxDone, panicked, timerVars, feeVars, statVars, coreVars, extVars>>

\* a wait that is one tick short
Until_Short(t) == t - now - 1

\* time.Until(t), targetTime.Sub(time.Now())
Until(t) == t - now

\* time.Sleep(d) and a timer of d return at once when d <= 0
WakeAt(d) == IF d > 0 THEN now + d ELSE now

(***************************************************************************)
(* engine: QuantumEngine.ExecuteQuantumWithdrawal                          *)
(***************************************************************************)
\* quantum.PrecisionTimer is not among the repository's files; the start
\* instant is the unlock time and the wait lasts until it
CalculateQuantumMoment(t) == t

PrecisionWaitWake(t) == WakeAt(Until(t))

EngineStart ==
    /\ sys = "engine" /\ ~panicked
    /\ opc = "idle"
    /\ \E t \in UnlockTimes : unlockTime' = t
    /\ opc' = "running"
    /\ cpc' = [r \in Races |-> "wait"]
    /\ UNCHANGED <<cfgVars, now, oresult, cresult, cwake, workVars, chanVars, ctxDone, panicked, timerVars, feeVars, statVars, coreVars, extVars>>

EngineWait(r) ==
    /\ sys = "engine" /\ ~panicked
    /\ cpc[r] = "wait"
    /\ cwake' = [cwake EXCEPT ![r] = PrecisionWaitWake(CalculateQuantumMoment(unlockTime))]
    /\ cpc' = [cpc EXCEPT ![r] = "sleeping"]
    /\ UNCHANGED <<cfgVars, now, orchVars, cresult, workVars, chanVars, ctxDone, panicked, timerVars, feeVars, statVars, coreVars, extVars>>

EngineLaunch(r) ==
    /\ sys = "engine" /\ ~panicked
    /\ cpc[r] = "sleeping"
    /\ now >= cwake[r]
    /\ wpc' = [wpc EXCEPT ![r] = [i \in Workers |-> "select"]]
    /\ cpc' = [cpc EXCEPT ![r] = "join"]
    /\ UNCHANGED <<cfgVars, now, orchVars, cresult, cwake, claimedBy, attempts, chanVars, ctxDone, panicked, timerVars, feeVars, statVars, coreVars, extVars>>

\* atomic.AddInt64(&qe.attemptCount, 1) at the head of attemptQuantumClaim
\* and attemptQuantumTransfer, kept by race and worker
Invoked(r, i) ==
    [attempts EXCEPT ![r][i] = IF @ < MaxCounted THEN @ + 1 ELSE @]

\* the two stop cases of the worker's select
EngineStop(r) == ctxDone[r] \/ chanClosed[r]

EngineWorkerSelect(r, i) ==
    /\ sys = "engine" /\ ~panicked
    /\ wpc[r][i] = "select"
    /\ wpc' = [wpc EXCEPT ![r][i] = IF EngineStop(r) THEN "done" ELSE "attempt"]
    /\ attempts' = IF EngineStop(r) THEN attempts ELSE Invoked(r, i)
    /\ UNCHANGED <<cfgVars, now, orchVars, coordVars, claimedBy, chanVars, ctxDone, panicked, timerVars, feeVars, statVars, coreVars, extVars>>

\* util.ClaimBalanceWithSponsor: true, or false with an error
ClaimBalanceWithSponsor == {"success", "retryable"}

\* util.TransferWithQuantumFee: an amount or address that does not validate
\* gives an error on every call; otherwise true, or false with an error
TransferWithQuantumFee(valid) ==
    IF valid THEN {"success", "retryable"} ELSE {"terminal"}

\* what an attempt of race r can return
AttemptOutcomes(r) ==
    IF r = "claim" THEN ClaimBalanceWithSponsor ELSE TransferWithQuantumFee(validPayload)

\* attemptQuantumClaim, attemptQuantumTransfer: any error is logged and
\* gives false
attemptSucceeded(outcome) == outcome = "success"

\* the attempt returns; on success the worker closes the race's channel
\* (closing a closed channel panics), on failure it sleeps 100ns (claim) or
\* 1us (transfer) and is back at its select
EngineAttemptReturns(r, i) ==
    /\ sys = "engine" /\ ~panicked
    /\ wpc[r][i] = "attempt"
    /\ \E outcome \in AttemptOutcomes(r) :
        IF attemptSucceeded(outcome)
        THEN /\ claimedBy' = [claimedBy EXCEPT ![r] = @ \cup {i}]
             /\ IF chanClosed[r]
                THEN /\ panicked' = TRUE
                     /\ UNCHANGED <<wpc, chanClosed>>
                ELSE /\ chanClosed' = [chanClosed EXCEPT ![r] = TRUE]
                     /\ wpc' = [wpc EXCEPT ![r][i] = "done"]
                     /\ UNCHANGED panicked
        ELSE /\ wpc' = [wpc EXCEPT ![r][i] = "select"]
             /\ UNCHANGED <<claimedBy, chanClosed, panicked>>
    /\ UNCHANGED <<cfgVars, now, orchVars, coordVars, attempts, chanBuf, ctxDone, timerVars, feeVars, statVars, coreVars, extVars>>

\* claimWg.Wait() / transferWg.Wait()
EngineJoin(r) ==
    /\ sys = "engine" /\ ~panicked
    /\ cpc[r] = "join"
    /\ AllDone(r)
    /\ cpc' = [cpc EXCEPT ![r] = "returned"]
    /\ UNCHANGED <<cfgVars, now, orchVars, cresult, cwake, workVars, chanVars, ctxDone, panicked, timerVars, feeVars, statVars, coreVars, extVars>>

\* wg.Wait(), Learn, return nil; the deferred cancels run
EngineReturn ==
    /\ sys = "engine" /\ ~panicked
    /\ opc = "running"
    /\ \A r \in Races : cpc[r] = "returned"
    /\ opc' = "returned"
    /\ oresult' = "nil"
    /\ ctxDone' = [r \in Races |-> TRUE]
    /\ UNCHANGED <<cfgVars, now, unlockTime, coordVars, workVars, chanVars, panicked, timerVars, feeVars, statVars, coreVars, extVars>>

\* the caller's context (10 minute timeout) expires: both children are done
EngineDeadline ==
    /\ sys = "engine" /\ ~panicked
    /\ opc = "running"
    /\ \E r \in Races : ~ctxDone[r]
    /\ ctxDone' = [r \in Races |-> TRUE]
    /\ UNCHANGED <<cfgVars, now, orchVars, coordVars, workVars, chanVars, panicked, timerVars, feeVars, statVars, coreVars, extVars>>

EngineNext ==
    \/ EngineStart
    \/ EngineReturn
    \/ EngineDeadline
    \/ \E r \in Races : EngineWait(r) \/ EngineLaunch(r) \/ EngineJoin(r)
    \/ \E r \in Races, i \in Workers :
        EngineWorkerSelect(r, i) \/ EngineAttemptReturns(r, i)

(***************************************************************************)
(* wallet: QuantumWallet.ExecuteQuantumSupremacy, QuantumClaimBalance,     *)
(* QuantumTransfer                                                         *)
(***************************************************************************)
WalletSystems == {"wallet", "direct"}

\* SetNanoTiming (and SetQuantumMode, which sets the same field)
SetNanoTiming ==
    /\ sys \in WalletSystems /\ ~panicked
    /\ opc = "idle"
    /\ \E enabled \in BOOLEAN : enabled # nanoTiming /\ nanoTiming' = enabled
    /\ UNCHANGED <<sys, cpuFrequency, driftCorrection, validPayload, now, orchVars, coordVars, workVars, chanVars, ctxDone, panicked, timerVars, feeVars, statVars, coreVars, extVars>>

WalletStart ==
    /\ sys = "wallet" /\ ~panicked
    /\ opc = "idle"
    /\ \E t \in UnlockTimes : unlockTime' = t
    /\ opc' = "running"
    /\ cpc' = [r \in Races |-> "wait"]
    /\ UNCHANGED <<cfgVars, now, oresult, cresult, cwake, workVars, chanVars, ctxDone, panicked, timerVars, feeVars, statVars, coreVars, extVars>>

IsZero(t) == t = ZeroTime

\* waitForQuantumMoment: waitDuration := targetTime.Sub(time.Now())
WaitDuration(t) == Until(t)

\* waitForQuantumMoment: the instant its timer fires (no timer for a zero
\* target or a duration that is not positive)
WaitForQuantumMomentWake(t) == IF IsZero(t) THEN now ELSE WakeAt(WaitDuration(t))

\* if qw.nanoTiming { qw.waitForQuantumMoment(unlockTime) }
WalletWait(r) ==
    /\ sys \in WalletSystems /\ ~panicked
    /\ cpc[r] = "wait"
    /\ cwake' = [cwake EXCEPT ![r] = IF nanoTiming THEN WaitForQuantumMomentWake(unlockTime) ELSE ZeroTime]
    /\ cpc' = [cpc EXCEPT ![r] = "sleeping"]
    /\ UNCHANGED <<cfgVars, now, orchVars, cresult, workVars, chanVars, ctxDone, panicked, timerVars, feeVars, statVars, coreVars, extVars>>

\* the worker goroutines and the closer goroutine are started; the
\* coordinator goes on to its select
WalletLaunch(r) ==
    /\ sys \in WalletSystems /\ ~panicked
    /\ cpc[r] = "sleeping"
    /\ now >= cwake[r]
    /\ wpc' = [wpc EXCEPT ![r] = [i \in Workers |-> "check"]]
    /\ cpc' = [cpc EXCEPT ![r] = "select"]
    /\ UNCHANGED <<cfgVars, now, orchVars, cresult, cwake, claimedBy, attempts, chanVars, ctxDone, panicked, timerVars, feeVars, statVars, coreVars, extVars>>

\* a receive from the success channel can proceed: a token is buffered, or
\* the channel is closed
CanReceive(r) == chanBuf[r] > 0 \/ chanClosed[r]

\* the worker's abort check: select { case <-ch: return; default: attempt }
WalletWorkerCheck(r, i) ==
    /\ sys \in WalletSystems /\ ~panicked
    /\ wpc[r][i] = "check"
    /\ IF CanReceive(r)
       THEN /\ chanBuf' = [chanBuf EXCEPT ![r] = 0]
            /\ wpc' = [wpc EXCEPT ![r][i] = "done"]
       ELSE /\ wpc' = [wpc EXCEPT ![r][i] = "attempt"]
            /\ UNCHANGED chanBuf
    /\ UNCHANGED attempts
    /\ UNCHANGED <<cfgVars, now, orchVars, coordVars, claimedBy, chanClosed, ctxDone, panicked, timerVars, feeVars, statVars, coreVars, extVars>>

\* the attempt returns; on success: select { case ch <- true: log; default: }
WalletAttemptReturns(r, i) ==
    /\ sys \in WalletSystems /\ ~panicked
    /\ wpc[r][i] = "attempt"
    /\ \E success \in BOOLEAN :
        IF success /\ chanBuf[r] = 0
        THEN /\ chanBuf' = [chanBuf EXCEPT ![r] = 1]
             /\ claimedBy' = [claimedBy EXCEPT ![r] = @ \cup {i}]
        ELSE UNCHANGED <<chanBuf, claimedBy>>
    /\ wpc' = [wpc EXCEPT ![r][i] = "done"]
    /\ UNCHANGED <<cfgVars, now, orchVars, coordVars, attempts, chanClosed, ctxDone, panicked, timerVars, feeVars, statVars, coreVars, extVars>>

\* go func() { wg.Wait(); close(ch) }()
WalletCloser(r) ==
    /\ sys \in WalletSystems /\ ~panicked
    /\ cpc[r] \in {"select", "returned"}
    /\ AllDone(r)
    /\ ~chanClosed[r]
    /\ chanClosed' = [chanClosed EXCEPT ![r] = TRUE]
    /\ UNCHANGED <<cfgVars, now, orchVars, coordVars, workVars, chanBuf, ctxDone, panicked, timerVars, feeVars, statVars, coreVars, extVars>>

\* case success := <-ch: a token gives nil; the zero value of a closed
\* channel falls through to "quantum claim failed"
WalletReceive(r) ==
    /\ sys \in WalletSystems /\ ~panicked
    /\ cpc[r] = "select"
    /\ CanReceive(r)
    /\ cresult' = [cresult EXCEPT ![r] = IF chanBuf[r] > 0 THEN "nil" ELSE "failed"]
    /\ chanBuf' = [chanBuf EXCEPT ![r] = 0]
    /\ cpc' = [cpc EXCEPT ![r] = "returned"]
    /\ UNCHANGED <<cfgVars, now, orchVars, cwake, workVars, chanClosed, ctxDone, panicked, timerVars, feeVars, statVars, coreVars, extVars>>

\* case <-time.After(30 * time.Second)
WalletTimeout(r) ==
    /\ sys \in WalletSystems /\ ~panicked
    /\ cpc[r] = "select"
    /\ cresult' = [cresult EXCEPT ![r] = "timeout"]
    /\ cpc' = [cpc EXCEPT ![r] = "returned"]
    /\ UNCHANGED <<cfgVars, now, orchVars, cwake, workVars, chanVars, ctxDone, panicked, timerVars, feeVars, statVars, coreVars, extVars>>

\* the return value of ExecuteQuantumSupremacy from the two errors: an
\* error when both are set, nil otherwise (with a warning logged for the
\* one that is set)
SupremacyResult(claimErr, transferErr) ==
    IF claimErr /\ transferErr THEN "error"
    ELSE IF claimErr \/ transferErr THEN "partial"
    ELSE "nil"

WalletReturn ==
    /\ sys = "wallet" /\ ~panicked
    /\ opc = "running"
    /\ \A r \in Races : cpc[r] = "returned"
    /\ opc' = "returned"
    /\ oresult' = SupremacyResult(cresult["claim"] # "nil", cresult["transfer"] # "nil")
    /\ UNCHANGED <<cfgVars, now, unlockTime, coordVars, workVars, chanVars, ctxDone, panicked, timerVars, feeVars, statVars, coreVars, extVars>>

\* QuantumClaimBalance / QuantumTransfer called directly
DirectCall ==
    /\ sys = "direct" /\ ~panicked
    /\ opc = "idle"
    /\ \E t \in UnlockTimes : unlockTime' = t
    /\ opc' = "direct"
    /\ \E r \in Races : cpc' = [cpc EXCEPT ![r] = "wait"]
    /\ UNCHANGED <<cfgVars, now, oresult, cresult, cwake, workVars, chanVars, ctxDone, panicked, timerVars, feeVars, statVars, coreVars, extVars>>

WalletRaceNext ==
    \/ SetNanoTiming
    \/ \E r \in Races :
        WalletWait(r) \/ WalletLaunch(r) \/ WalletCloser(r) \/ WalletReceive(r) \/ WalletTimeout(r)
    \/ \E r \in Races, i \in Workers : WalletWorkerCheck(r, i) \/ WalletAttemptReturns(r, i)

WalletNext ==
    \/ WalletStart
    \/ WalletReturn
    \/ DirectCall
    \/ WalletRaceNext

(***************************************************************************)
(* processor: ConcurrentProcessor.ExecuteIndependentOperations             *)
(***************************************************************************)
ProcStart ==
    /\ sys = "processor" /\ ~panicked
    /\ opc = "idle"
    /\ \E t \in UnlockTimes : unlockTime' = t
    /\ opc' = "running"
    /\ cpc' = [r \in Races |-> "wait"]
    /\ UNCHANGED <<cfgVars, now, oresult, cresult, cwake, workVars, chanVars, ctxDone, panicked, timerVars, feeVars, statVars, coreVars, extVars>>

\* time.Sleep(time.Until(unlockTime))
SleepUntilWake(t) == WakeAt(Until(t))

ProcWait(r) ==
    /\ sys = "processor" /\ ~panicked
    /\ cpc[r] = "wait"
    /\ cwake' = [cwake EXCEPT ![r] = SleepUntilWake(unlockTime)]
    /\ cpc' = [cpc EXCEPT ![r] = "sleeping"]
    /\ UNCHANGED <<cfgVars, now, orchVars, cresult, workVars, chanVars, ctxDone, panicked, timerVars, feeVars, statVars, coreVars, extVars>>

\* the goroutines are started and the operation returns at once
ProcLaunch(r) ==
    /\ sys = "processor" /\ ~panicked
    /\ cpc[r] = "sleeping"
    /\ now >= cwake[r]
    /\ wpc' = [wpc EXCEPT ![r] = [i \in Workers |-> "select"]]
    /\ cpc' = [cpc EXCEPT ![r] = "returned"]
    /\ UNCHANGED <<cfgVars, now, orchVars, cresult, cwake, claimedBy, attempts, chanVars, ctxDone, panicked, timerVars, feeVars, statVars, coreVars, extVars>>

\* wg.Wait(); print; return nil
ProcReturn ==
    /\ sys = "processor" /\ ~panicked
    /\ opc = "running"
    /\ \A r \in Races : cpc[r] = "returned"
    /\ opc' = "returned"
    /\ oresult' = "nil"
    /\ UNCHANGED <<cfgVars, now, unlockTime, coordVars, workVars, chanVars, ctxDone, panicked, timerVars, feeVars, statVars, coreVars, extVars>>

\* the caller's context, shared by both races, is cancelled or expires
ProcCancel ==
    /\ sys = "processor" /\ ~panicked
    /\ opc # "idle"
    /\ \E r \in Races : ~ctxDone[r]
    /\ ctxDone' = [r \in Races |-> TRUE]
    /\ UNCHANGED <<cfgVars, now, orchVars, coordVars, workVars, chanVars, panicked, timerVars, feeVars, statVars, coreVars, extVars>>

ProcStop(r) == ctxDone[r]

ProcWorkerSelect(r, i) ==
    /\ sys = "processor" /\ ~panicked
    /\ wpc[r][i] = "select"
    /\ wpc' = [wpc EXCEPT ![r][i] = IF ProcStop(r) THEN "done" ELSE "attempt"]
    /\ UNCHANGED attempts
    /\ UNCHANGED <<cfgVars, now, orchVars, coordVars, claimedBy, chanVars, ctxDone, panicked, timerVars, feeVars, statVars, coreVars, extVars>>

\* err == nil: count the success, print "Claim SUCCESS", return; otherwise
\* sleep retryInterval and go back to the select
ProcAttemptReturns(r, i) ==
    /\ sys = "processor" /\ ~panicked
    /\ wpc[r][i] = "attempt"
    /\ \E success \in BOOLEAN :
        IF success
        THEN /\ claimedBy' = [claimedBy EXCEPT ![r] = @ \cup {i}]
             /\ wpc' = [wpc EXCEPT ![r][i] = "done"]
        ELSE /\ wpc' = [wpc EXCEPT ![r][i] = "select"]
             /\ UNCHANGED claimedBy
    /\ UNCHANGED <<cfgVars, now, orchVars, coordVars, attempts, chanVars, ctxDone, panicked, timerVars, feeVars, statVars, coreVars, extVars>>

ProcNext ==
    \/ ProcStart
    \/ ProcReturn
    \/ ProcCancel
    \/ \E r \in Races : ProcWait(r) \/ ProcLaunch(r)
    \/ \E r \in Races, i \in Workers :
        ProcWorkerSelect(r, i) \/ ProcAttemptReturns(r, i)

(***************************************************************************)
(* timer: the three scheduler waits                                        *)
(***************************************************************************)
\* a comparison that lets the busy wait go one tick early
Before_Early(t, u) == t + 1 < u

\* t.Before(u)
Before(t, u) == t < u

\* readTSC: uint64(time.Now().UnixNano())
readTSC == now

\* tscToTime: (tsc * 1000000000) / cpuFrequency in the machine word, plus
\* the drift correction
tscToTime(tsc) ==
    IF cpuFrequency = 0
    THEN now
    ELSE ((tsc * TicksPerSecond) % WordModulus) \div cpuFrequency + driftCorrection

\* GetQuantumTime with useRDTSC set: the converted TSC, corrected once more
GetQuantumTime == tscToTime(readTSC) + driftCorrection

QuantumSleepUntilCall ==
    /\ sys = "timer"
    /\ tpc = "idle"
    /\ \E t \in Targets :
        /\ ttarget' = t
        /\ IF Before(t, now)
           THEN /\ tpc' = "returned"
                /\ UNCHANGED <<twake, tslept>>
           ELSE IF Until(t) > Millisecond
           THEN /\ tpc' = "sleeping"
                /\ twake' = now + (Until(t) - Millisecond)
                /\ tslept' = TRUE
           ELSE /\ tpc' = "spin"
                /\ UNCHANGED <<twake, tslept>>
    /\ tkind' = "QuantumSleepUntil"
    /\ tcall' = now
    /\ tread' = now
    /\ UNCHANGED <<cfgVars, now, orchVars, coordVars, workVars, chanVars, ctxDone, panicked, tspun, feeVars, statVars, coreVars, extVars>>

\* time.Sleep(duration - time.Millisecond) returns
QuantumSleepUntilWake ==
    /\ sys = "timer"
    /\ tkind = "QuantumSleepUntil"
    /\ tpc = "sleeping"
    /\ now >= twake
    /\ tpc' = "spin"
    /\ UNCHANGED <<cfgVars, now, orchVars, coordVars, workVars, chanVars, ctxDone, panicked, tkind, ttarget, tcall, twake, tslept, tspun, tread, feeVars, statVars, coreVars, extVars>>

\* for time.Now().Before(targetTime) { runtime.Gosched() }
QuantumSleepUntilSpin ==
    /\ sys = "timer"
    /\ tkind = "QuantumSleepUntil"
    /\ tpc = "spin"
    /\ tread' = now
    /\ IF Before(now, ttarget)
       THEN /\ tspun' = TRUE
            /\ UNCHANGED tpc
       ELSE /\ tpc' = "returned"
            /\ UNCHANGED tspun
    /\ UNCHANGED <<cfgVars, now, orchVars, coordVars, workVars, chanVars, ctxDone, panicked, tkind, ttarget, tcall, twake, tslept, feeVars, statVars, coreVars, extVars>>

WaitUntilQuantumMomentCall ==
    /\ sys = "timer"
    /\ tpc = "idle"
    /\ \E t \in Targets :
        /\ ttarget' = t
        /\ tpc' = IF IsZero(t) THEN "returned" ELSE "loop"
    /\ tkind' = "WaitUntilQuantumMoment"
    /\ tcall' = now
    /\ UNCHANGED <<cfgVars, now, orchVars, coordVars, workVars, chanVars, ctxDone, panicked, twake, tslept, tspun, tread, feeVars, statVars, coreVars, extVars>>

\* one iteration of the outer loop: read the quantum clock, then break,
\* sleep, or go to the busy wait
WaitUntilQuantumMomentLoop ==
    /\ sys = "timer"
    /\ tkind = "WaitUntilQuantumMoment"
    /\ tpc = "loop"
    /\ tread' = GetQuantumTime
    /\ LET remaining == ttarget - GetQuantumTime
       IN  IF remaining <= 0
           THEN /\ tpc' = "returned"
                /\ UNCHANGED <<twake, tslept>>
           ELSE IF remaining > Millisecond
           THEN /\ tpc' = "sleeping"
                /\ twake' = now + (remaining - Millisecond)
                /\ tslept' = TRUE
           ELSE /\ tpc' = "spin"
                /\ UNCHANGED <<twake, tslept>>
    /\ UNCHANGED <<cfgVars, now, orchVars, coordVars, workVars, chanVars, ctxDone, panicked, tkind, ttarget, tcall, tspun, feeVars, statVars, coreVars, extVars>>

\* time.Sleep(remaining - time.Millisecond) returns
WaitUntilQuantumMomentWake ==
    /\ sys = "timer"
    /\ tkind = "WaitUntilQuantumMoment"
    /\ tpc = "sleeping"
    /\ now >= twake
    /\ tpc' = "loop"
    /\ UNCHANGED <<cfgVars, now, orchVars, coordVars, workVars, chanVars, ctxDone, panicked, tkind, ttarget, tcall, twake, tslept, tspun, tread, feeVars, statVars, coreVars, extVars>>

\* for qt.GetQuantumTime().Before(targetTime) { runtime.Gosched() }; break
WaitUntilQuantumMomentSpin ==
    /\ sys = "timer"
    /\ tkind = "WaitUntilQuantumMoment"
    /\ tpc = "spin"
    /\ tread' = GetQuantumTime
    /\ IF Before(GetQuantumTime, ttarget)
       THEN /\ tspun' = TRUE
            /\ UNCHANGED tpc
       ELSE /\ tpc' = "returned"
            /\ UNCHANGED tspun
    /\ UNCHANGED <<cfgVars, now, orchVars, coordVars, workVars, chanVars, ctxDone, panicked, tkind, ttarget, tcall, twake, tslept, feeVars, statVars, coreVars, extVars>>

waitForQuantumMomentCall ==
    /\ sys = "timer"
    /\ tpc = "idle"
    /\ \E t \in Targets :
        /\ ttarget' = t
        /\ IF ~IsZero(t) /\ WaitDuration(t) > 0
           THEN /\ tpc' = "sleeping"
                /\ twake' = WaitForQuantumMomentWake(t)
                /\ tslept' = TRUE
           ELSE /\ tpc' = "returned"
                /\ UNCHANGED <<twake, tslept>>
    /\ tkind' = "waitForQuantumMoment"
    /\ tcall' = now
    /\ tread' = now
    /\ UNCHANGED <<cfgVars, now, orchVars, coordVars, workVars, chanVars, ctxDone, panicked, tspun, feeVars, statVars, coreVars, extVars>>

\* <-timer.C
waitForQuantumMomentFire ==
    /\ sys = "timer"
    /\ tkind = "waitForQuantumMoment"
    /\ tpc = "sleeping"
    /\ now >= twake
    /\ tpc' = "returned"
    /\ UNCHANGED <<cfgVars, now, orchVars, coordVars, workVars, chanVars, ctxDone, panicked, tkind, ttarget, tcall, twake, tslept, tspun, tread, feeVars, statVars, coreVars, extVars>>

TimerNext ==
    \/ QuantumSleepUntilCall
    \/ QuantumSleepUntilWake
    \/ QuantumSleepUntilSpin
    \/ WaitUntilQuantumMomentCall
    \/ WaitUntilQuantumMomentLoop
    \/ WaitUntilQuantumMomentWake
    \/ WaitUntilQuantumMomentSpin
    \/ waitForQuantumMomentCall
    \/ waitForQuantumMomentFire

(***************************************************************************)
(* fees: FeeWarfareEngine, QuantumCore.CalculateWarfareFee,                *)
(* QuantumEngine.calculateDominanceFee and the NeuralNetwork behind it     *)
(***************************************************************************)
\* int64(float64(x) * n / d) for x >= 0: the product's integer part
MulDiv(x, n, d) == (x \div d) * n + ((x % d) * n) \div d

Max(a, b) == IF a > b THEN a ELSE b
Min(a, b) == IF a < b THEN a ELSE b
MaxOf(S) == CHOOSE x \in S : \A y \in S : y <= x

\* the record of a fee call
FeeCall(fn, op, arg, fee) == [fn |-> fn, op |-> op, arg |-> arg, fee |-> fee]

getBaseFee(operation) ==
    IF operation = "claim" THEN BaseFeeClaim
    ELSE IF operation = "transfer" THEN BaseFeeTransfer
    ELSE DefaultBaseFee

\* every listed pattern fee is above the threshold
isCompetitorTransaction(fee) == fee > CompetitorThreshold

\* the map after updateCompetitorFees(operation, fee)
updateCompetitorFees(operation, fee) ==
    IF competitorFees[operation] = 0 \/ fee > competitorFees[operation]
    THEN [competitorFees EXCEPT ![operation] = fee]
    ELSE competitorFees

\* the value CalculateWarfareFee(operation, urgency) returns
WarfareFee(operation, urgency) ==
    IF ~warfareEnabled
    THEN getBaseFee(operation)
    ELSE LET competitorFee == IF competitorFees[operation] = 0
                              THEN getBaseFee(operation)
                              ELSE competitorFees[operation]
             warfareFee == MulDiv(competitorFee, EscalationPercent, Percent)
             urgencyFee == MulDiv(warfareFee, urgency, Tenth)
             finalFee == MulDiv(urgencyFee, Tenth + networkCongestion, Tenth)
         IN  IF finalFee > MaxFeeLimit THEN MaxFeeLimit ELSE finalFee

\* sniffMempool: one transaction of the mempool response, handled under
\* fwe.mu.Lock(), which waits until no read lock is held
SniffMempool ==
    /\ sys \in {"fees", "analytics"}
    /\ readers = {}
    /\ \E op \in Operations, fee \in ObservedFees :
        /\ isCompetitorTransaction(fee)
        /\ competitorFees' = updateCompetitorFees(op, fee)
    /\ fcall' = NoCall
    /\ UNCHANGED <<cfgVars, now, orchVars, coordVars, workVars, chanVars, ctxDone, panicked, timerVars, statVars, coreVars, extVars, lockVars, networkCongestion, warfareEnabled, feeHistory, netVars>>

UpdateNetworkCongestion ==
    /\ sys = "fees"
    /\ \E congestion \in Congestions :
        /\ congestion # networkCongestion
        /\ networkCongestion' = congestion
    /\ fcall' = NoCall
    /\ UNCHANGED <<cfgVars, now, orchVars, coordVars, workVars, chanVars, ctxDone, panicked, timerVars, statVars, coreVars, extVars, lockVars, competitorFees, warfareEnabled, feeHistory, netVars>>

SetWarfareMode ==
    /\ sys = "fees"
    /\ warfareEnabled' = ~warfareEnabled
    /\ fcall' = NoCall
    /\ UNCHANGED <<cfgVars, now, orchVars, coordVars, workVars, chanVars, ctxDone, panicked, timerVars, statVars, coreVars, extVars, lockVars, competitorFees, networkCongestion, feeHistory, netVars>>

\* snapshots are named by their arrival number modulo SnapshotIds, which is
\* enough to tell apart all snapshots the history can hold and the next one
SnapshotIds == MaxHistory + 2
NextSnapshot(last) == (last + 1) % SnapshotIds

\* recordFeeSnapshot: fwe.feeHistory = append(slice, snapshot), and
\* fwe.feeHistory[1:] if it is longer than the limit
recordFeeSnapshot(slice, snapshot) ==
    LET appended == Append(slice, snapshot)
    IN  IF Len(appended) > MaxHistory THEN Tail(appended) ELSE appended

\* FeeWarfareEngine.CalculateWarfareFee, with recordFeeSnapshot
CalculateWarfareFee ==
    /\ sys = "fees"
    /\ \E op \in Operations, urgency \in Urgencies :
        fcall' = FeeCall("CalculateWarfareFee", op, urgency, WarfareFee(op, urgency))
    /\ feeHistory' = IF warfareEnabled THEN Min(feeHistory + 1, MaxHistory) ELSE feeHistory
    /\ history' = IF warfareEnabled
                  THEN [history EXCEPT
                            !.seq = recordFeeSnapshot(@, NextSnapshot(history.last)),
                            !.last = NextSnapshot(@),
                            !.total = Min(@ + 1, MaxHistory)]
                  ELSE history
    /\ UNCHANGED <<cfgVars, now, orchVars, coordVars, workVars, chanVars, ctxDone, panicked, timerVars, statVars, coreVars, retry, legacy, session, lockVars, competitorFees, networkCongestion, warfareEnabled, netVars>>

\* QuantumCore.CalculateWarfareFee(baseFee, competitorFees)
CoreWarfareFee(baseFee, fees) ==
    IF fees = {}
    THEN MulDiv(baseFee, EscalationPercent, Percent)
    ELSE MulDiv(Max(0, MaxOf(fees)), EscalationPercent, Percent)

CoreCalculateWarfareFee ==
    /\ sys = "fees"
    /\ \E baseFee \in {BaseFeeClaim, BaseFeeTransfer}, fees \in SUBSET ObservedFees :
        /\ Cardinality(fees) <= 1
        /\ fcall' = FeeCall("QuantumCore.CalculateWarfareFee", baseFee, fees, CoreWarfareFee(baseFee, fees))
    /\ UNCHANGED <<cfgVars, now, orchVars, coordVars, workVars, chanVars, ctxDone, panicked, timerVars, statVars, coreVars, extVars, lockVars, warfareVars, netVars>>

\* PredictOptimalFee from the network's first output (in tenths)
PredictOptimalFee(output) == Max(MinMultiplier, Min(MaxMultiplier, output))

\* the first output of Forward: it depends on the weights, on the hour and
\* minute and on rand.Float64() features
Outputs == {0, 25, 100, 250}

\* calculateDominanceFee: baseFees map (0 for an unknown operation)
DominanceBaseFee(operation) ==
    IF operation = "claim" THEN BaseFeeClaim
    ELSE IF operation = "transfer" THEN BaseFeeTransfer
    ELSE 0

DominanceFee(operation, aiMultiplier) ==
    MulDiv((DominanceBaseFee(operation) * (EscalationPercent \div Tenth)) \div (Percent \div Tenth), aiMultiplier, Tenth)

calculateDominanceFee ==
    /\ sys = "fees"
    /\ \E op \in Operations, output \in Outputs :
        fcall' = FeeCall("calculateDominanceFee", op, 0, DominanceFee(op, PredictOptimalFee(output)))
    /\ UNCHANGED <<cfgVars, now, orchVars, coordVars, workVars, chanVars, ctxDone, panicked, timerVars, statVars, coreVars, extVars, lockVars, warfareVars, netVars>>

\* NeuralNetwork.Learn: store the example, start a batch when enough are
\* stored
Learn ==
    /\ sys = "fees"
    /\ pendingTrain + epochs < MaxEpochs
    /\ trainingData' = Min(trainingData + 1, MaxTraining)
    /\ pendingTrain' = IF trainingData' >= TrainThreshold THEN pendingTrain + 1 ELSE pendingTrain
    /\ UNCHANGED <<cfgVars, now, orchVars, coordVars, workVars, chanVars, ctxDone, panicked, timerVars, statVars, coreVars, extVars, lockVars, warfareVars, epochs, fcall>>

\* trainBatch: backpropagate updates the weights and biases
trainBatch ==
    /\ sys = "fees"
    /\ pendingTrain > 0
    /\ pendingTrain' = pendingTrain - 1
    /\ epochs' = epochs + 1
    /\ UNCHANGED <<cfgVars, now, orchVars, coordVars, workVars, chanVars, ctxDone, panicked, timerVars, statVars, coreVars, extVars, lockVars, warfareVars, trainingData, fcall>>

(***************************************************************************)
(* analytics: FeeWarfareEngine shared by several goroutines                *)
(***************************************************************************)
\* CalculateWarfareFee: fwe.mu.RLock()
WarfareRLock(w) ==
    /\ sys = "analytics"
    /\ calcpc[w] = "idle"
    /\ readers' = readers \cup {w}
    /\ calcpc' = [calcpc EXCEPT ![w] = IF warfareEnabled THEN "locked" ELSE "recorded"]
    /\ UNCHANGED <<cfgVars, now, orchVars, coordVars, workVars, chanVars, ctxDone, panicked, timerVars, statVars, coreVars, extVars, warfareVars, netVars, fcall, calclen, analytics>>

\* recordFeeSnapshot: append(fwe.feeHistory, snapshot) reads the slice ...
WarfareAppendRead(w) ==
    /\ sys = "analytics"
    /\ calcpc[w] = "locked"
    /\ calclen' = [calclen EXCEPT ![w] = feeHistory]
    /\ history' = [history EXCEPT !.read[w] = history.seq,
                                  !.own[w] = NextSnapshot(history.last),
                                  !.last = NextSnapshot(@),
                                  !.total = Min(@ + 1, MaxHistory)]
    /\ calcpc' = [calcpc EXCEPT ![w] = "appending"]
    /\ UNCHANGED <<cfgVars, now, orchVars, coordVars, workVars, chanVars, ctxDone, panicked, timerVars, statVars, coreVars, retry, legacy, session, warfareVars, netVars, fcall, readers, analytics>>

\* ... and stores the longer slice, trimmed to the history's capacity
WarfareAppendWrite(w) ==
    /\ sys = "analytics"
    /\ calcpc[w] = "appending"
    /\ feeHistory' = Min(calclen[w] + 1, MaxHistory)
    /\ calclen' = [calclen EXCEPT ![w] = 0]
    /\ history' = [history EXCEPT
                       !.seq = recordFeeSnapshot(history.read[w], history.own[w]),
                       !.read[w] = <<>>, !.own[w] = 0]
    /\ calcpc' = [calcpc EXCEPT ![w] = "recorded"]
    /\ UNCHANGED <<cfgVars, now, orchVars, coordVars, workVars, chanVars, ctxDone, panicked, timerVars, statVars, coreVars, retry, legacy, session, competitorFees, networkCongestion, warfareEnabled, netVars, fcall, readers, analytics>>

\* the deferred fwe.mu.RUnlock(); the fee is returned
WarfareRUnlock(w) ==
    /\ sys = "analytics"
    /\ calcpc[w] = "recorded"
    /\ readers' = readers \ {w}
    /\ calcpc' = [calcpc EXCEPT ![w] = "idle"]
    /\ UNCHANGED <<cfgVars, now, orchVars, coordVars, workVars, chanVars, ctxDone, panicked, timerVars, statVars, coreVars, extVars, warfareVars, netVars, fcall, calclen, analytics>>

\* getRecentFeeHistory(limit): a slice of the last limit snapshots
getRecentFeeHistory(limit) == Min(feeHistory, limit)

\* the value stored under "competitor_fees": the engine's map itself
CompetitorFeesRef == "fwe.competitorFees"

\* what a holder of a map reference reads through it
MapValue(ref) == IF ref = CompetitorFeesRef THEN competitorFees ELSE [op \in Operations |-> 0]

\* GetWarfareAnalytics, under the read lock: the returned map, with the
\* competitor fees as they are at the return
GetWarfareAnalytics ==
    /\ sys = "analytics"
    /\ analytics' = [returned |-> TRUE,
                     competitor_fees |-> CompetitorFeesRef,
                     recent_fee_history |-> getRecentFeeHistory(RecentLimit),
                     fees_at_return |-> competitorFees]
    /\ analytics' # analytics
    /\ UNCHANGED <<cfgVars, now, orchVars, coordVars, workVars, chanVars, ctxDone, panicked, timerVars, statVars, coreVars, extVars, warfareVars, netVars, fcall, readers, calcpc, calclen>>

AnalyticsNext ==
    \/ SniffMempool
    \/ GetWarfareAnalytics
    \/ \E w \in Workers :
        WarfareRLock(w) \/ WarfareAppendRead(w) \/ WarfareAppendWrite(w) \/ WarfareRUnlock(w)

(***************************************************************************)
(* stats: ConcurrentProcessor's counters                                   *)
(***************************************************************************)
\* ExecuteIndependentOperations: both operations have started their workers
StatsLaunch ==
    /\ sys = "stats"
    /\ opc = "idle"
    /\ opc' = "running"
    /\ wpc' = [r \in Races |-> [i \in Workers |-> "select"]]
    /\ UNCHANGED <<cfgVars, now, oresult, unlockTime, coordVars, claimedBy, attempts, chanVars, ctxDone, panicked, timerVars, feeVars, statVars, coreVars, extVars>>

\* the caller's context is cancelled or expires
StatsCancel ==
    /\ sys = "stats"
    /\ opc = "running"
    /\ \E r \in Races : ~ctxDone[r]
    /\ ctxDone' = [r \in Races |-> TRUE]
    /\ UNCHANGED <<cfgVars, now, orchVars, coordVars, workVars, chanVars, panicked, timerVars, feeVars, statVars, coreVars, extVars>>

\* select { case <-ctx.Done(): return; default: the attempt is invoked }
StatsWorkerSelect(r, i) ==
    /\ sys = "stats"
    /\ wpc[r][i] = "select"
    /\ wpc' = [wpc EXCEPT ![r][i] = IF ctxDone[r] THEN "returning" ELSE "attempt"]
    /\ attempts' = IF ctxDone[r] THEN attempts ELSE Invoked(r, i)
    /\ UNCHANGED <<cfgVars, now, orchVars, coordVars, claimedBy, chanVars, ctxDone, panicked, timerVars, feeVars, statVars, coreVars, extVars>>

\* err == nil: atomic.AddInt64(&cp.successCount, 1), print, return;
\* otherwise sleep retryInterval and go back to the select
StatsAttemptReturns(r, i) ==
    /\ sys = "stats"
    /\ wpc[r][i] = "attempt"
    /\ \E success \in BOOLEAN :
        IF success
        THEN /\ successCount' = successCount + 1
             /\ claimedBy' = [claimedBy EXCEPT ![r] = @ \cup {i}]
             /\ wpc' = [wpc EXCEPT ![r][i] = "returning"]
        ELSE /\ wpc' = [wpc EXCEPT ![r][i] = "select"]
             /\ UNCHANGED <<successCount, claimedBy>>
    /\ UNCHANGED <<cfgVars, now, orchVars, coordVars, attempts, chanVars, ctxDone, panicked, timerVars, feeVars, coreVars, extVars, opAttempts, stats>>

\* the deferred atomic.AddInt64(&cp.claimAttempts, 1) (or transferAttempts)
\* runs as the goroutine returns
StatsWorkerReturn(r, i) ==
    /\ sys = "stats"
    /\ wpc[r][i] = "returning"
    /\ opAttempts' = [opAttempts EXCEPT ![r] = @ + 1]
    /\ wpc' = [wpc EXCEPT ![r][i] = "done"]
    /\ UNCHANGED <<cfgVars, now, orchVars, coordVars, claimedBy, attempts, chanVars, ctxDone, panicked, timerVars, feeVars, coreVars, extVars, successCount, stats>>

\* GetOperationStats: the three counters are loaded
GetOperationStats ==
    /\ sys = "stats"
    /\ stats' = [returned |-> TRUE,
                 ClaimAttempts |-> opAttempts["claim"],
                 TransferAttempts |-> opAttempts["transfer"],
                 SuccessCount |-> successCount]
    /\ stats' # stats
    /\ UNCHANGED <<cfgVars, now, orchVars, coordVars, workVars, chanVars, ctxDone, panicked, timerVars, feeVars, coreVars, extVars, opAttempts, successCount>>

StatsNext ==
    \/ StatsLaunch
    \/ StatsCancel
    \/ GetOperationStats
    \/ \E r \in Races, i \in Workers :
        StatsWorkerSelect(r, i) \/ StatsAttemptReturns(r, i) \/ StatsWorkerReturn(r, i)

(***************************************************************************)
(* core: QuantumCore.ExecuteQuantumTask, startQuantumProcessing,           *)
(* startWorkerPool                                                         *)
(***************************************************************************)
\* executeQuantumTask: the result's Success for a task type
executeQuantumTask(taskType) == IF taskType \in Pools THEN "success" ELSE "error"

\* ExecuteQuantumTask: the task is put on the queue and the caller waits on
\* task.ResultChan, or, the queue being full, the task is executed at once
\* and its result returned
ExecuteQuantumTask(c) ==
    /\ sys = "core"
    /\ call[c] = "idle"
    /\ \E taskType \in TaskTypes :
        IF Len(taskQueue) < QueueCap
        THEN /\ taskQueue' = Append(taskQueue, [caller |-> c, type |-> taskType])
             /\ call' = [call EXCEPT ![c] = "waiting"]
        ELSE /\ call' = [call EXCEPT ![c] = executeQuantumTask(taskType)]
             /\ UNCHANGED taskQueue
    /\ UNCHANGED <<cfgVars, now, orchVars, coordVars, workVars, chanVars, ctxDone, panicked, timerVars, feeVars, statVars, extVars, taskChan, resultChan, active, completed, poolpc>>

\* getPoolForTask and the pool lookup
PoolExists(taskType) == taskType \in Pools

\* startQuantumProcessing: the next queued task is routed to its pool; it
\* is dropped when there is no such pool, or when the pool's taskChan is
\* full (handleTaskOverflow does nothing)
RouteTask ==
    /\ sys = "core"
    /\ taskQueue # <<>>
    /\ taskQueue' = Tail(taskQueue)
    /\ taskChan' = IF PoolExists(Head(taskQueue).type) /\ Len(taskChan) < PoolCap
                   THEN Append(taskChan, Head(taskQueue))
                   ELSE taskChan
    /\ UNCHANGED <<cfgVars, now, orchVars, coordVars, workVars, chanVars, ctxDone, panicked, timerVars, feeVars, statVars, extVars, resultChan, active, completed, poolpc, call>>

\* startWorkerPool: a worker receives a task, counts itself active and
\* executes the task
PoolWorkerTake(w) ==
    /\ sys = "core"
    /\ poolpc[w] = "idle"
    /\ taskChan # <<>>
    /\ taskChan' = Tail(taskChan)
    /\ active' = active + 1
    /\ poolpc' = [poolpc EXCEPT ![w] = "deliver"]
    /\ UNCHANGED <<cfgVars, now, orchVars, coordVars, workVars, chanVars, ctxDone, panicked, timerVars, feeVars, statVars, extVars, taskQueue, resultChan, completed, call>>

\* pool.resultChan <- result (blocks while the buffer is full), then the
\* two counters
PoolWorkerDeliver(w) ==
    /\ sys = "core"
    /\ poolpc[w] = "deliver"
    /\ resultChan < PoolCap
    /\ resultChan' = resultChan + 1
    /\ active' = active - 1
    /\ completed' = completed + 1
    /\ poolpc' = [poolpc EXCEPT ![w] = "idle"]
    /\ UNCHANGED <<cfgVars, now, orchVars, coordVars, workVars, chanVars, ctxDone, panicked, timerVars, feeVars, statVars, extVars, taskQueue, taskChan, call>>

CoreNext ==
    \/ RouteTask
    \/ \E c \in Callers : ExecuteQuantumTask(c)
    \/ \E w \in Workers : PoolWorkerTake(w) \/ PoolWorkerDeliver(w)

(***************************************************************************)
(* retry: util.QuantumRetry                                                *)
(***************************************************************************)
RetryLimits == (0 - 1)..MaxRetryAttempts
BaseDelays == {d * DelayUnit : d \in 0..MaxBaseDelay}
OperationErrors == {"timeout", "refused"}

\* the loop sleeps after every failed attempt
SleepsAfter_Every(attempt, maxAttempts) == attempt < maxAttempts

\* if attempt < maxAttempts-1: the loop sleeps after a failed attempt
SleepsAfter(attempt, maxAttempts) == attempt < maxAttempts - 1

\* time.Duration(float64(baseDelay) * (1.0 + 0.1*float64(attempt)))
RetryDelay(baseDelay, attempt) == MulDiv(baseDelay, Tenth + attempt, Tenth)

\* the return value after the loop: fmt.Errorf("quantum retry failed ...")
RetryFailed(r) == [r EXCEPT !.pc = "returned", !.result = "error"]

\* QuantumRetry is called; the loop condition is tested for attempt 0
QuantumRetryCall ==
    /\ sys = "retry"
    /\ retry.pc = "idle"
    /\ \E maxAttempts \in RetryLimits, baseDelay \in BaseDelays :
        LET r == [pc |-> "call", maxAttempts |-> maxAttempts, baseDelay |-> baseDelay,
                  attempt |-> 0, calls |-> 0, sleeps |-> 0, delay |-> 0,
                  lastErr |-> "nil", result |-> "none"]
        IN  retry' = IF 0 < maxAttempts THEN r ELSE RetryFailed(r)
    /\ UNCHANGED <<baseVars, legacy, session, history>>

\* lastErr = operation(): nil returns nil; an error is kept and the loop
\* goes on to its sleep, or to the next test of its condition
QuantumRetryAttempt ==
    /\ sys = "retry"
    /\ retry.pc = "call"
    /\ \E err \in {"nil"} \cup OperationErrors :
        LET r == [retry EXCEPT !.calls = @ + 1, !.lastErr = err]
        IN  retry' =
                IF err = "nil"
                THEN [r EXCEPT !.pc = "returned", !.result = "nil"]
                ELSE IF SleepsAfter(r.attempt, r.maxAttempts)
                THEN [r EXCEPT !.pc = "sleep", !.delay = RetryDelay(r.baseDelay, r.attempt)]
                ELSE IF r.attempt + 1 < r.maxAttempts
                THEN [r EXCEPT !.attempt = @ + 1]
                ELSE RetryFailed([r EXCEPT !.attempt = @ + 1])
    /\ UNCHANGED <<baseVars, legacy, session, history>>

\* QuantumSleep(delay) returns; attempt++ and the loop condition
QuantumRetrySleep ==
    /\ sys = "retry"
    /\ retry.pc = "sleep"
    /\ LET r == [retry EXCEPT !.sleeps = @ + 1, !.attempt = @ + 1]
       IN  retry' = IF r.attempt < r.maxAttempts
                    THEN [r EXCEPT !.pc = "call"]
                    ELSE RetryFailed(r)
    /\ UNCHANGED <<baseVars, legacy, session, history>>

RetryNext ==
    \/ QuantumRetryCall
    \/ QuantumRetryAttempt
    \/ QuantumRetrySleep

(***************************************************************************)
(* legacy: Server.startLegacyMonitoring                                    *)
(***************************************************************************)
\* every time after the latest unlock time is represented by LegacyHorizon:
\* now.Before(claimableAt) is false for all of them
LegacyHorizon == MaxClaimableAt + 1
LegacyTime(t) == Min(t, LegacyHorizon)

\* a loop that claims on every tick
Unlocked_Always(t, claimableAt) == TRUE

\* !now.Before(claimableAt): the tick goes on to the claim
Unlocked(t, claimableAt) == ~Before(t, claimableAt)

\* one more call, counted up to MaxCounted
Counted(n) == IF n < MaxCounted THEN n + 1 ELSE n

\* s.sendQuantumResponse(conn, QuantumWithdrawResponse{Action: action, ...})
LegacySend(l, action) == [l EXCEPT !.sent = @ \cup {action}]

\* startLegacyMonitoring is called: the ticker is created, attemptCount := 0
LegacyStart ==
    /\ sys = "legacy"
    /\ legacy.pc = "idle"
    /\ \E claimableAt \in 0..MaxClaimableAt :
        legacy' = [pc |-> "ticker", claimableAt |-> claimableAt, time |-> 0,
                   attemptCount |-> 0, sent |-> {}, claimCalls |-> 0,
                   claimOk |-> FALSE, transferCalls |-> 0, transferOk |-> FALSE]
    /\ UNCHANGED <<baseVars, retry, session, history>>

\* for range ticker.C: attemptCount++, now := time.Now(), and either the
\* "waiting" response and continue, or the "claiming" response
LegacyTick ==
    /\ sys = "legacy"
    /\ legacy.pc = "ticker"
    /\ \E late \in 0..1 :
        LET t == LegacyTime(legacy.time + LegacyTickSeconds + late)
            l == [legacy EXCEPT !.time = t,
                                !.attemptCount = Counted(@)]
        IN  legacy' = IF Unlocked(t, l.claimableAt)
                      THEN [LegacySend(l, "claiming") EXCEPT !.pc = "claim"]
                      ELSE LegacySend(l, "waiting")
    /\ UNCHANGED <<baseVars, retry, session, history>>

\* err := s.wallet.ClaimBalance(kp, req.LockedBalanceID): on nil the
\* "claimed" response and the two-second sleep, on an error the next tick
LegacyClaim ==
    /\ sys = "legacy"
    /\ legacy.pc = "claim"
    /\ \E err \in {"nil", "error"} :
        LET l == [legacy EXCEPT !.claimCalls = Counted(@)]
        IN  legacy' = IF err = "nil"
                      THEN [LegacySend(l, "claimed") EXCEPT
                                !.pc = "balance", !.claimOk = TRUE,
                                !.time = LegacyTime(@ + BalanceWaitSeconds)]
                      ELSE [l EXCEPT !.pc = "ticker"]
    /\ UNCHANGED <<baseVars, retry, session, history>>

\* availableBalance, err := s.wallet.GetAvailableBalance(kp);
\* if err == nil && availableBalance != "0"
LegacyBalance ==
    /\ sys = "legacy"
    /\ legacy.pc = "balance"
    /\ \E available \in BOOLEAN :
        legacy' = [legacy EXCEPT !.pc = IF available THEN "transfer" ELSE "ticker"]
    /\ UNCHANGED <<baseVars, retry, session, history>>

\* err = s.wallet.Transfer(kp, req.Amount, req.WithdrawalAddress): on nil
\* the "completed" response and return, on an error the next tick
LegacyTransfer ==
    /\ sys = "legacy"
    /\ legacy.pc = "transfer"
    /\ \E err \in {"nil", "error"} :
        LET l == [legacy EXCEPT !.transferCalls = Counted(@)]
        IN  legacy' = IF err = "nil"
                      THEN [LegacySend(l, "completed") EXCEPT
                                !.pc = "returned", !.transferOk = TRUE]
                      ELSE [l EXCEPT !.pc = "ticker"]
    /\ UNCHANGED <<baseVars, retry, session, history>>

LegacyNext ==
    \/ LegacyStart
    \/ LegacyTick
    \/ LegacyClaim
    \/ LegacyBalance
    \/ LegacyTransfer

(***************************************************************************)
(* session: Server.QuantumWithdraw, executeQuantumWithdrawal,              *)
(* executeLegacyWithdrawal, scheduleLegacyWithdraw, startQuantumMonitoring *)
(* and the goroutine of FeeWarfareEngine.StartMempoolMonitoring            *)
(***************************************************************************)
\* what the handler finds in a request: whether the upgrade, ReadMessage,
\* json.Unmarshal, GetKeyFromSeed(SeedPhrase) and time.Parse(UnlockTime)
\* succeed, and the sponsor phrase: absent, valid or invalid
Requests ==
    [upgrade : BOOLEAN, read : BOOLEAN, json : BOOLEAN, seed : BOOLEAN,
     sponsor : {"", "valid", "invalid"}, quantumMode : BOOLEAN, unlockTime : BOOLEAN]

\* a handler that does not look at the sponsor phrase
RequestError_NoSponsor(req) ==
    IF ~req.read THEN "Invalid request"
    ELSE IF ~req.json THEN "Malformed JSON"
    ELSE IF ~req.seed THEN "Invalid seed phrase"
    ELSE ""

\* the message of the first check of QuantumWithdraw that fails, "" if none
RequestError(req) ==
    IF ~req.read THEN "Invalid request"
    ELSE IF ~req.json THEN "Malformed JSON"
    ELSE IF ~req.seed THEN "Invalid seed phrase"
    ELSE IF req.sponsor = "invalid" THEN "Invalid sponsor phrase"
    ELSE ""

\* s.sendQuantumResponse(conn, QuantumWithdrawResponse{...})
SessionSend(s, what, success) ==
    [s EXCEPT !.sent = @ \cup {[what |-> what, success |-> success]}]

\* the handler returns: the deferred cancelWarfare() and conn.Close()
SessionReturn(s) ==
    [s EXCEPT !.pc = "returned",
              !.warfareCtx = IF @ = "live" THEN "cancelled" ELSE @]

\* a monitor that goes on after <-ctx.Done()
AfterDone_Continue == "select"

\* case <-ctx.Done(): return
AfterDone == "stopped"

\* QuantumWithdraw up to the choice of the strategy: the upgrade, the
\* request and its checks, the "initialized" response, warfareCtx and
\* StartMempoolMonitoring
SessionRequest ==
    /\ sys = "session"
    /\ session.pc = "idle"
    /\ \E req \in Requests :
        LET s == [pc |-> "strategy", req |-> req, sent |-> {}, warfareCtx |-> "none",
                  monitor |-> "none", polls |-> 0, race |-> FALSE, transfers |-> FALSE,
                  monitoring |-> FALSE, ticks |-> 0]
        IN  session' =
                IF ~req.upgrade THEN [s EXCEPT !.pc = "returned"]
                ELSE IF RequestError(req) # ""
                THEN SessionReturn(SessionSend(s, RequestError(req), FALSE))
                ELSE [SessionSend(s, "initialized", TRUE) EXCEPT
                          !.warfareCtx = "live", !.monitor = "select"]
    /\ UNCHANGED <<baseVars, retry, legacy, history>>

\* executeQuantumWithdrawal up to the call of ExecuteQuantumWithdrawal
SessionQuantum ==
    /\ sys = "session"
    /\ session.pc = "strategy"
    /\ session.req.quantumMode
    /\ session' =
           IF ~session.req.unlockTime
           THEN SessionReturn(SessionSend(session, "Invalid unlock time format", FALSE))
           ELSE [SessionSend(SessionSend(session, "quantum_prep", TRUE),
                             "quantum_ready", TRUE) EXCEPT !.pc = "race", !.race = TRUE]
    /\ UNCHANGED <<baseVars, retry, legacy, history>>

\* quantumEngine.ExecuteQuantumWithdrawal returns
SessionRaceReturns ==
    /\ sys = "session"
    /\ session.pc = "race"
    /\ \E err \in {"nil", "error"} :
        session' =
            IF err # "nil"
            THEN SessionReturn(SessionSend(session, "quantum_error", FALSE))
            ELSE [SessionSend(session, "quantum_complete", TRUE) EXCEPT
                      !.pc = "monitoring"]
    /\ UNCHANGED <<baseVars, retry, legacy, history>>

\* startQuantumMonitoring: one tick, and the return after the last one
SessionMonitoringTick ==
    /\ sys = "session"
    /\ session.pc = "monitoring"
    /\ LET s == [SessionSend(session, "quantum_monitor", TRUE) EXCEPT !.ticks = @ + 1]
       IN  session' = IF s.ticks >= MonitorTicks
                      THEN SessionReturn(SessionSend(s, "quantum_success", TRUE))
                      ELSE s
    /\ UNCHANGED <<baseVars, retry, legacy, history>>

\* executeLegacyWithdrawal and scheduleLegacyWithdraw up to the call of
\* startLegacyMonitoring
SessionLegacy ==
    /\ sys = "session"
    /\ session.pc = "strategy"
    /\ ~session.req.quantumMode
    /\ \E balance \in {"error", "0", "positive"}, transferErr \in {"nil", "error"},
          schedule \in {"error", "no claimant", "no unlock date", "scheduled"} :
        LET s1 == IF balance = "positive"
                  THEN [session EXCEPT !.transfers = TRUE]
                  ELSE session
            s2 == IF balance = "positive" /\ transferErr = "nil"
                  THEN SessionSend(s1, "withdrawn", TRUE)
                  ELSE s1
        IN  session' =
                IF balance = "error"
                THEN SessionReturn(SessionSend(session, "error", FALSE))
                ELSE IF schedule = "error"
                THEN SessionReturn(SessionSend(s2, "claimable balance error", FALSE))
                ELSE IF schedule = "no claimant"
                THEN SessionReturn(s2)
                ELSE IF schedule = "no unlock date"
                THEN SessionReturn(SessionSend(s2, "Error finding locked balance unlock date", FALSE))
                ELSE [SessionSend(s2, "schedule", TRUE) EXCEPT
                          !.pc = "legacy", !.monitoring = TRUE]
    /\ UNCHANGED <<baseVars, retry, legacy, history>>

\* startLegacyMonitoring returns
SessionLegacyReturns ==
    /\ sys = "session"
    /\ session.pc = "legacy"
    /\ session' = SessionReturn(SessionSend(session, "completed", TRUE))
    /\ UNCHANGED <<baseVars, retry, legacy, history>>

\* the monitor's select takes case <-ticker.C
MonitorTick ==
    /\ sys = "session"
    /\ session.pc # "idle"
    /\ session.monitor = "select"
    /\ session' = [session EXCEPT !.monitor = "sniff"]
    /\ UNCHANGED <<baseVars, retry, legacy, history>>

\* fwe.sniffMempool() in the monitor: the poll fails or finds no competitor,
\* or a competitor transaction updates the competitor fees
MonitorSniff ==
    /\ sys = "session"
    /\ session.pc # "idle"
    /\ session.monitor = "sniff"
    /\ session' = [session EXCEPT !.monitor = "select", !.polls = Counted(@)]
    /\ \/ UNCHANGED competitorFees
       \/ \E op \in Operations, fee \in ObservedFees :
            /\ isCompetitorTransaction(fee)
            /\ competitorFees' = updateCompetitorFees(op, fee)
    /\ UNCHANGED <<cfgVars, now, orchVars, coordVars, workVars, chanVars, ctxDone, panicked, timerVars, statVars, coreVars, lockVars, networkCongestion, warfareEnabled, feeHistory, netVars, fcall, retry, legacy, history>>

\* the monitor's select takes case <-ctx.Done()
MonitorDone ==
    /\ sys = "session"
    /\ session.pc # "idle"
    /\ session.monitor = "select"
    /\ session.warfareCtx = "cancelled"
    /\ session' = [session EXCEPT !.monitor = AfterDone]
    /\ UNCHANGED <<baseVars, retry, legacy, history>>

SessionNext ==
    \/ SessionRequest
    \/ SessionQuantum
    \/ SessionRaceReturns
    \/ SessionMonitoringTick
    \/ SessionLegacy
    \/ SessionLegacyReturns
    \/ MonitorTick
    \/ MonitorSniff
    \/ MonitorDone

FeeNext ==
    \/ SniffMempool
    \/ UpdateNetworkCongestion
    \/ SetWarfareMode
    \/ CalculateWarfareFee
    \/ CoreCalculateWarfareFee
    \/ calculateDominanceFee
    \/ Learn
    \/ trainBatch

Next ==
    \/ Tick
    \/ EngineNext
    \/ WalletNext
    \/ ProcNext
    \/ TimerNext
    \/ FeeNext
    \/ AnalyticsNext
    \/ StatsNext
    \/ CoreNext
    \/ RetryNext
    \/ LegacyNext
    \/ SessionNext

Spec == Init /\ [][Next]_vars

(***************************************************************************)
(* The races on their own: a directly called wallet race and the           *)
(* processor.                                                              *)
(***************************************************************************)
RaceInit == Init /\ sys \in {"direct", "processor"}

RaceNext ==
    \/ Tick
    \/ DirectCall
    \/ WalletRaceNext
    \/ ProcNext

RaceSpec == RaceInit /\ [][RaceNext]_vars

(***************************************************************************)
(* The scheduler waits on their own.                                       *)
(***************************************************************************)
TimerInit == Init /\ sys = "timer"

TimerStep ==
    \/ Tick
    \/ TimerNext

TimerSpec == TimerInit /\ [][TimerStep]_vars

(***************************************************************************)
(* The fee computations on their own.                                      *)
(***************************************************************************)
FeeInit == Init /\ sys = "fees"

FeeSpec == FeeInit /\ [][FeeNext]_vars

\* the fee engine keeps running: some step that changes the state is
\* eventually taken while one is possible
FeeFairSpec == FeeSpec /\ WF_vars(FeeNext)

(***************************************************************************)
(* The fee engine shared by concurrent callers.                            *)
(***************************************************************************)
AnalyticsInit == Init /\ sys = "analytics"

AnalyticsSpec == AnalyticsInit /\ [][AnalyticsNext]_vars

(***************************************************************************)
(* The processor's workers and counters.                                   *)
(***************************************************************************)
StatsInit == Init /\ sys = "stats"

StatsSpec == StatsInit /\ [][StatsNext]_vars

(***************************************************************************)
(* QuantumCore's task processing; its goroutines (the dispatcher and the   *)
(* pool workers) are scheduled whenever they can run.                      *)
(***************************************************************************)
RetryInit == Init /\ sys = "retry"

RetrySpec == RetryInit /\ [][RetryNext]_vars

LegacyInit == Init /\ sys = "legacy"

LegacySpec == LegacyInit /\ [][LegacyNext]_vars

\* the ticker keeps firing and every wallet call returns; a wallet call that
\* is made again and again with a chance to succeed does succeed: the
\* balance query and the transfer
LegacyFairSpec ==
    /\ LegacySpec
    /\ WF_vars(LegacyTick) /\ WF_vars(LegacyClaim)
    /\ WF_vars(LegacyBalance) /\ WF_vars(LegacyTransfer)
    /\ SF_vars(LegacyBalance /\ legacy'.pc = "transfer")
    /\ SF_vars(LegacyTransfer /\ legacy'.pc = "returned")

SessionInit == Init /\ sys = "session"

SessionSpec == SessionInit /\ [][SessionNext]_vars

\* the monitor goroutine is scheduled and its poll returns (the HTTP client
\* has a timeout); a select that finds ctx.Done() ready again and again
\* takes that case at some time, Go choosing among the ready cases at random
SessionFairSpec ==
    /\ SessionSpec
    /\ WF_vars(MonitorSniff)
    /\ SF_vars(MonitorDone)

CoreInit == Init /\ sys = "core"

CoreSpec == CoreInit /\ [][CoreNext]_vars

CoreFairSpec ==
    /\ CoreSpec
    /\ WF_vars(RouteTask)
    /\ \A w \in Workers : WF_vars(PoolWorkerTake(w)) /\ WF_vars(PoolWorkerDeliver(w))

(***************************************************************************)
(* The two implementations whose workers watch a context, with the Go      *)
(* scheduler's fairness: a goroutine that can run does run, and a call     *)
(* that was made returns.                                                  *)
(***************************************************************************)
CancelInit == Init /\ sys \in {"engine", "processor"}

CancelNext ==
    \/ Tick
    \/ EngineNext
    \/ ProcNext

CancelSpec == CancelInit /\ [][CancelNext]_vars

WorkerFairness ==
    \A r \in Races, i \in Workers :
        /\ WF_vars(EngineWorkerSelect(r, i))
        /\ WF_vars(EngineAttemptReturns(r, i))
        /\ WF_vars(ProcWorkerSelect(r, i))
        /\ WF_vars(ProcAttemptReturns(r, i))

CancelFairSpec == CancelSpec /\ WorkerFairness

(***************************************************************************)
(* Properties                                                              *)
(***************************************************************************)
RaceSystems == {"engine", "wallet", "direct"}

\* a worker that is running its loop
WorkerLive(r, i) == ~panicked /\ wpc[r][i] \in {"select", "check", "attempt"}

\* everything that belongs to one race
RaceState(r) == <<cpc[r], cresult[r], wpc[r], claimedBy[r], chanClosed[r], chanBuf[r], ctxDone[r]>>

\* the race has an outcome: a winner, a reported failure, or all its
\* workers gone
RaceTerminal(r) ==
    \/ claimedBy[r] # {}
    \/ cresult[r] \in {"failed", "timeout"}
    \/ AllDone(r)

\* the success flag of a race as its orchestrator sees it
RaceSucceeded(r) == IF sys = "wallet" THEN cresult[r] = "nil" ELSE claimedBy[r] # {}

\* C1: in one race of QuantumEngine or QuantumWallet at most one worker
\* ever raises the race-won signal.
C1_AtMostOneWinner ==
    sys \in RaceSystems => \A r \in Races : Cardinality(claimedBy[r]) <= 1

\* a step in which no worker of a race that already has a winner starts an
\* attempt
NoNewAttemptAfterWin ==
    \A r \in Races, i \in Workers :
        (claimedBy[r] # {} /\ wpc[r][i] # "attempt") => wpc'[r][i] # "attempt"

\* C2: once a worker of a race of QuantumEngine or ConcurrentProcessor has
\* won, no worker of that race starts a new attempt.
C2_NoNewAttemptAfterWin ==
    [][(sys \in {"engine", "processor"}) => NoNewAttemptAfterWin]_vars

\* a step that stops no running worker of a race it leaves untouched
NoCrossStop ==
    \A r \in Races :
        RaceState(r)' = RaceState(r) =>
            (\A i \in Workers : WorkerLive(r, i) => WorkerLive(r, i)')

\* C3: a step that leaves a race of QuantumEngine or QuantumWallet untouched
\* (a step of the other race) stops none of its running workers.
C3_NoCrossStop ==
    [][(sys \in {"engine", "wallet"}) => NoCrossStop]_vars

\* C4: when the orchestrator has returned, both races are terminal.
C4_ReturnsAfterBothTerminal ==
    opc = "returned" => \A r \in Races : RaceTerminal(r)

\* C5: the orchestrator of QuantumEngine or QuantumWallet returns an error
\* exactly when both races failed.
C5_ErrorIffBothFailed ==
    (sys \in {"engine", "wallet"} /\ opc = "returned") =>
        (oresult = "error" <=> \A r \in Races : ~RaceSucceeded(r))

\* C6: a run of the orchestrator of QuantumEngine or QuantumWallet never
\* crashes the process.
C6_NeverCrashes ==
    (sys \in {"engine", "wallet"} /\ opc # "idle") => ~panicked

\* C7: a race of QuantumEngine or QuantumWallet that ended with no winner
\* has all its workers gone or its deadline passed, and its coordinator
\* reported failure.
C7_NoWinnerReportsFailure ==
    sys \in RaceSystems =>
        \A r \in Races :
            (cpc[r] = "returned" /\ claimedBy[r] = {}) => cresult[r] \in {"failed", "timeout"}

C9_WakeNotBeforeTarget ==
    tpc = "returned" =>
        /\ ttarget > tcall => now >= ttarget
        /\ (tkind = "WaitUntilQuantumMoment" /\ ~IsZero(ttarget)) => tread >= ttarget

\* QuantumSleepUntil returned from a future target after a coarse sleep and
\* a spin
C9_Witness ==
    /\ tkind = "QuantumSleepUntil" /\ tpc = "returned"
    /\ ttarget > tcall
    /\ tslept /\ tspun

\* C10: QuantumSleepUntil or WaitUntilQuantumMoment called with a target at
\* or before the clock value of the call performs no coarse sleep and no
\* spin iteration.
C10_PastTargetReturnsAtOnce ==
    (tkind \in {"QuantumSleepUntil", "WaitUntilQuantumMoment"} /\ ttarget <= tcall) =>
        (~tslept /\ ~tspun)

\* a step that launches no worker of a race whose context was cancelled
\* while its coordinator was still in the scheduler wait
NoLaunchAfterCancelledWait ==
    \A r \in Races :
        (ctxDone[r] /\ cpc[r] \in {"wait", "sleeping"}) =>
            (\A i \in Workers : wpc'[r][i] = "idle")

\* C11: when the context of a race of ConcurrentProcessor or QuantumEngine
\* is cancelled while the coordinator is in its scheduler wait, no worker of
\* that race is launched afterwards.
C11_CancelledWaitLaunchesNothing ==
    [][(sys \in {"engine", "processor"}) => NoLaunchAfterCancelledWait]_vars

\* C12: every fee computed for an attempt lies between 0 and the fee limit.
C12_FeeWithinLimit ==
    (sys = "fees" /\ fcall.fn # "none") => (fcall.fee >= 0 /\ fcall.fee <= MaxFeeLimit)

\* the competitor value the fee engine tracks for an operation: its map
\* entry, seeded with the base fee
TrackedFee(op) == IF competitorFees[op] = 0 THEN getBaseFee(op) ELSE competitorFees[op]

\* the priority at normal urgency
NextPriority(op) == WarfareFee(op, Tenth)

\* a step, with warfare enabled and no congestion, in which an operation's
\* tracked value changes only to a greater value v, the priority then being
\* min(max, v * 2.5), and in which the priority is unchanged otherwise
ObservationEscalates ==
    (warfareEnabled /\ networkCongestion = 0 /\ UNCHANGED <<warfareEnabled, networkCongestion>>) =>
        \A op \in Operations :
            IF TrackedFee(op)' > TrackedFee(op)
            THEN NextPriority(op)' = Min(MaxFeeLimit, MulDiv(TrackedFee(op)', EscalationPercent, Percent))
            ELSE NextPriority(op)' = NextPriority(op)

\* C13: an observed competitor value above the tracked one makes the next
\* priority min(max, v * escalationFactor); any other observation leaves the
\* priority unchanged.
C13_ObservationEscalates ==
    [][(sys = "fees") => ObservationEscalates]_vars

\* the tracked competitor value of an operation is above its base
Elevated(op) == competitorFees[op] > getBaseFee(op)

\* C14: a priority raised by a past observation does not stay raised for
\* ever: the tracked value eventually is back at base.
C14_DecaysToBase ==
    \A op \in Operations : (sys = "fees" /\ Elevated(op)) ~> ~Elevated(op)

\* a step that repeats the last fee call returns the same fee
SameFeeAgain ==
    (/\ fcall.fn # "none"
     /\ fcall'.fn = fcall.fn
     /\ fcall'.op = fcall.op
     /\ fcall'.arg = fcall.arg) => fcall'.fee = fcall.fee

\* C15: repeating a fee computation with no competitor observation,
\* congestion or mode change in between returns the same value.
C15_NextPriorityIdempotent ==
    [][(sys = "fees") => SameFeeAgain]_vars

\* what the fee computations read
PriorityState == <<competitorFees, networkCongestion, warfareEnabled, epochs>>

\* a step of learning (Learn or the batch it started) that leaves the state
\* the fee computations read unchanged
LearningLeavesPriority ==
    (trainingData' # trainingData \/ pendingTrain' # pendingTrain) => UNCHANGED PriorityState

\* C16: learning from execution data changes nothing the fee computations
\* read.
C16_LearningLeavesPriority ==
    [][(sys = "fees") => LearningLeavesPriority]_vars
\* RaceResult.totalAttempts: the attempts invoked in race r
RECURSIVE SumOver(_, _)
SumOver(f, S) ==
    IF S = {} THEN 0
    ELSE LET x == CHOOSE y \in S : TRUE IN f[x] + SumOver(f, S \ {x})

totalAttempts(r) == SumOver(attempts[r], Workers)

\* C17: whatever maxAttempts is configured, a worker of a race invokes at
\* most maxAttempts attempts and the race at most workerCount * maxAttempts.
C17_AttemptsBounded ==
    sys = "engine" =>
        \A maxAttempts \in 1..(MaxCounted - 1), r \in Races :
            /\ \A i \in Workers : attempts[r][i] <= maxAttempts
            /\ totalAttempts(r) <= NumWorkers * maxAttempts

\* a step in which no worker invokes a further attempt after an attempt of
\* its own that returned a payload / validation error
NoRetryAfterTerminal ==
    \A r \in Races, i \in Workers :
        (AttemptOutcomes(r) = {"terminal"} /\ attempts[r][i] >= 1)
            => ~(wpc[r][i] = "select" /\ wpc'[r][i] = "attempt")

\* a step in which a worker whose attempt returns without success, and
\* without a payload error, goes back to its retry loop
RetryAfterRetryable ==
    \A r \in Races, i \in Workers :
        (/\ wpc[r][i] = "attempt" /\ wpc'[r][i] # "attempt"
         /\ "terminal" \notin AttemptOutcomes(r)
         /\ claimedBy'[r] = claimedBy[r])
            => wpc'[r][i] = "select"

\* a step in which an attempt that returns a payload error leaves the
\* sibling workers and the race's stop signals as they are
TerminalSparesSiblings ==
    \A r \in Races, i \in Workers :
        (/\ wpc[r][i] = "attempt" /\ wpc'[r][i] # "attempt"
         /\ AttemptOutcomes(r) = {"terminal"})
            => /\ \A j \in Workers \ {i} : wpc'[r][j] = wpc[r][j]
               /\ chanClosed'[r] = chanClosed[r]
               /\ ctxDone'[r] = ctxDone[r]

\* C18: in the engine a worker does not retry after a Terminal (payload /
\* validation) error, retries after a Retryable one, and a Terminal outcome
\* of one worker stops no sibling.
C18_TerminalNotRetried ==
    [][(sys = "engine") =>
        NoRetryAfterTerminal /\ RetryAfterRetryable /\ TerminalSparesSiblings]_vars

\* a step that leaves the winner of every race that has one as it is: a
\* later success counts as no further winning success
WinnerStays ==
    \A r \in Races : claimedBy[r] # {} => claimedBy'[r] = claimedBy[r]

\* C19: in QuantumWallet and ConcurrentProcessor a success that comes after
\* the race was won does not change the winner, and the race counts no
\* second winning success.
C19_LateSuccessKeepsWinner ==
    [][(sys \in {"wallet", "direct", "processor"}) => WinnerStays]_vars

\* a step in which no worker of a race whose context is cancelled starts
\* an attempt
NoAttemptAfterCancel ==
    \A r \in Races, i \in Workers :
        ctxDone[r] => ~(wpc[r][i] # "attempt" /\ wpc'[r][i] = "attempt")

\* every worker of race r has returned (or none was started)
WorkersExited(r) == \A i \in Workers : wpc[r][i] \in {"idle", "done"}

\* C20: once the context of a race is cancelled no worker starts a new
\* attempt, and every worker of the race eventually exits.
C20_CancelStopsWorkers ==
    /\ [][NoAttemptAfterCancel]_vars
    /\ \A r \in Races : ctxDone[r] ~> WorkersExited(r)

\* cp.claimAttempts / cp.transferAttempts, the processor's attempt count: it
\* is incremented by a deferred call when a worker goroutine returns
claimAttempts(r) == Cardinality({i \in Workers : wpc[r][i] = "done"})

\* the coordinator of race r has returned a failure to its caller
ReturnedFailure(r) == cpc[r] = "returned" /\ cresult[r] \in {"failed", "timeout"}

\* C21: when no attempt of a race succeeds, the coordinator's return is a
\* failure and the attempt count it reports is the number of workers.
C21_AllFailReportsWorkerCount ==
    sys \in {"wallet", "direct", "processor"} =>
        \A r \in Races :
            (cpc[r] = "returned" /\ claimedBy[r] = {}) =>
                /\ ReturnedFailure(r)
                /\ sys = "processor" => claimAttempts(r) = NumWorkers

\* what a caller reads in the analytics map it was given
AnalyticsContents ==
    [competitor_fees |-> MapValue(analytics.competitor_fees),
     recent_fee_history |-> analytics.recent_fee_history]

\* C22: the contents of a returned analytics snapshot stay what they were
\* when the call returned, whatever is observed or appended afterwards.
C22_SnapshotIsCopy ==
    (sys = "analytics" /\ analytics.returned) =>
        AnalyticsContents = [competitor_fees |-> analytics.fees_at_return,
                             recent_fee_history |-> analytics.recent_fee_history]

\* a step that changes the competitor fees or the fee history is taken with
\* no read lock held, i.e. inside the writer's critical section
MutationUnderWriterLock ==
    (competitorFees' # competitorFees \/ feeHistory' # feeHistory) => readers = {}

\* at most one goroutine is inside a mutation of the fee history
OneMutatorAtATime == Cardinality({w \in Workers : calcpc[w] = "appending"}) <= 1

\* C23: competitor fees and fee history are mutated only under the
\* exclusive writer lock, never under a read lock and never by two
\* goroutines at once.
C23_MutationOnlyUnderWriterLock ==
    [][(sys = "analytics") => (MutationUnderWriterLock /\ OneMutatorAtATime)]_vars

\* a step in which no counter of the processor decreases
CountersMonotonic ==
    /\ \A r \in Races : opAttempts'[r] >= opAttempts[r]
    /\ successCount' >= successCount

\* a step after which the attempt counter of every race whose workers have
\* all stopped is the number of attempts its workers invoked
CountersExact ==
    \A r \in Races :
        (\A i \in Workers : wpc'[r][i] = "done")
            => opAttempts'[r] = SumOver(attempts'[r], Workers)

\* C24: the processor's attempt counters never decrease and, once all
\* workers of a race have stopped, equal the number of attempts invoked.
C24_CountersExact ==
    [][(sys = "stats") => (CountersMonotonic /\ CountersExact)]_vars

\* C25: every OperationStats returned by GetOperationStats has
\* SuccessCount <= ClaimAttempts + TransferAttempts.
C25_StatsConsistent ==
    (sys = "stats" /\ stats.returned) =>
        stats.SuccessCount <= stats.ClaimAttempts + stats.TransferAttempts

\* a step in which no worker closes a stop channel that is closed already
ClosedOnce ==
    \A r \in Races :
        chanClosed[r] => (claimedBy'[r] = claimedBy[r] /\ panicked' = panicked)

\* C26: in the engine the stop channel of a race is closed at most once,
\* whatever the interleaving of successful attempts; a second close is
\* unreachable.
C26_StopSignalRaisedOnce ==
    [][(sys = "engine") => ClosedOnce]_vars

\* a step in which a success token leaves the channel only into the
\* coordinator's receive, which then returns nil, and in which the
\* coordinator reports "failed" only when no attempt has succeeded
TokenDelivered ==
    \A r \in Races :
        /\ (chanBuf[r] = 1 /\ chanBuf'[r] = 0) => (cpc'[r] = "returned" /\ cresult'[r] = "nil")
        /\ (cpc'[r] = "returned" /\ cresult'[r] = "failed") => claimedBy'[r] = {}

\* C27: in QuantumClaimBalance and QuantumTransfer a success token is always
\* delivered to the coordinator, never taken by a worker's abort check, so a
\* success before the timeout makes the call return nil.
C27_SuccessTokenDelivered ==
    [][(sys \in WalletSystems) => TokenDelivered]_vars

\* the call that launched the workers of race r has returned to its caller
CallReturned(r) == opc = "returned" \/ (sys = "direct" /\ cpc[r] = "returned")

\* a step in which no worker invokes an attempt after the call that
\* launched it has returned
NoAttemptAfterReturn ==
    \A r \in Races, i \in Workers :
        CallReturned(r) => ~(wpc[r][i] # "attempt" /\ wpc'[r][i] = "attempt")

\* C28: once the orchestrator call (or a race called on its own) has
\* returned, none of the workers it launched invokes an attempt.
C28_NothingRunsAfterReturn ==
    [][(sys \in {"engine", "wallet", "direct", "processor"}) => NoAttemptAfterReturn]_vars

\* C29: every call of ExecuteQuantumTask eventually returns a result to
\* its caller, queued or not, for every task type.
C29_TaskCallReturns ==
    \A c \in Callers : (call[c] = "waiting") ~> (call[c] \in {"success", "error"})

\* C30: a pool worker that has a result to deliver eventually is idle
\* again, and the pool's active count eventually is back at 0.
C30_PoolWorkerNeverStuck ==
    /\ \A w \in Workers : (poolpc[w] = "deliver") ~> (poolpc[w] = "idle")
    /\ (active > 0) ~> (active = 0)

\* C31: in QuantumClaimBalance and QuantumTransfer the success channel is
\* closed only when every worker has finished, so no worker can still send
\* on it once it is closed.
C31_NoSendAfterClose ==
    sys \in WalletSystems =>
        \A r \in Races : chanClosed[r] => \A i \in Workers : wpc[r][i] = "done"

\* the channel of a race was closed after one of its workers had sent a
\* success token
C31_Witness ==
    /\ sys = "direct"
    /\ \E r \in Races : chanClosed[r] /\ claimedBy[r] # {}

\* the operation calls QuantumRetry may make
RetryBudget == IF retry.maxAttempts > 0 THEN retry.maxAttempts ELSE 0

\* C32: QuantumRetry calls the operation at most maxAttempts times (never
\* for maxAttempts <= 0), returns nil exactly when its last call succeeded
\* and an error exactly when all maxAttempts calls failed, and sleeps only
\* between two calls.
C32_QuantumRetry ==
    (sys = "retry" /\ retry.pc # "idle") =>
        /\ retry.calls <= RetryBudget
        /\ retry.result = "nil" <=>
                (retry.pc = "returned" /\ retry.calls > 0 /\ retry.lastErr = "nil")
        /\ retry.result = "error" <=>
                (/\ retry.pc = "returned" /\ retry.calls = RetryBudget
                 /\ retry.lastErr # "nil" \/ retry.calls = 0)
        /\ retry.lastErr = "nil" => (retry.calls = 0 \/ retry.pc = "returned")
        /\ retry.sleeps <= retry.calls
        /\ retry.pc = "returned" => retry.sleeps < retry.calls \/ retry.calls = 0
        /\ retry.pc \in {"sleep", "call"} => retry.calls < RetryBudget

\* QuantumRetry gave up after several failed calls with sleeps in between
C32_Witness ==
    /\ sys = "retry"
    /\ retry.pc = "returned" /\ retry.result = "error"
    /\ retry.calls >= 2 /\ retry.sleeps = retry.calls - 1 /\ retry.delay > retry.baseDelay

\* C33: in legacy monitoring the claim is called only at or after
\* claimableAt, the balance query and the transfer are called only after a
\* claim call has succeeded, and "completed" is sent exactly when the loop
\* ends, after both the claim and the transfer have succeeded.
C33_LegacyOrder ==
    (sys = "legacy" /\ legacy.pc # "idle") =>
        /\ legacy.pc = "claim" => legacy.time >= legacy.claimableAt
        /\ "claiming" \in legacy.sent => legacy.time >= legacy.claimableAt
        /\ legacy.pc \in {"balance", "transfer"} => legacy.claimOk
        /\ legacy.claimCalls > 0 => legacy.time >= legacy.claimableAt
        /\ legacy.transferCalls > 0 => legacy.claimOk
        /\ legacy.claimOk => legacy.claimCalls > 0
        /\ legacy.transferOk => legacy.transferCalls > 0
        /\ "completed" \in legacy.sent <=> legacy.pc = "returned"
        /\ legacy.pc = "returned" => legacy.claimOk /\ legacy.transferOk

\* the withdrawal completed after a wait for the unlock time
C33_Witness ==
    /\ sys = "legacy"
    /\ legacy.pc = "returned"
    /\ {"waiting", "claiming", "claimed", "completed"} \subseteq legacy.sent
    /\ legacy.claimableAt > 0

\* C34: once a claim has succeeded in legacy monitoring, the withdrawal
\* eventually completes, the balance query and the transfer succeeding when
\* they are retried.
C34_TransferRetried ==
    (sys = "legacy" /\ legacy.pc # "idle" /\ legacy.claimOk) ~> (legacy.pc = "returned")

\* the requests of C35: malformed, an invalid seed or sponsor phrase, or in
\* quantum mode an unlock time that does not parse
Rejected(req) ==
    /\ req.upgrade
    /\ \/ ~req.read \/ ~req.json \/ ~req.seed \/ req.sponsor = "invalid"
       \/ req.quantumMode /\ ~req.unlockTime

\* C35: for a rejected request the handler starts neither the engine's race
\* nor a legacy transfer or monitoring, and when it has returned it has sent
\* a response with Success=false.
C35_RejectedStartsNothing ==
    (sys = "session" /\ session.pc # "idle" /\ Rejected(session.req)) =>
        /\ ~session.race /\ ~session.transfers /\ ~session.monitoring
        /\ session.pc \in {"strategy", "returned"}
        /\ session.pc = "returned" => \E m \in session.sent : ~m.success

\* a request in quantum mode that is rejected for its unlock time alone
C35_Witness ==
    /\ sys = "session"
    /\ session.pc = "returned"
    /\ RequestError(session.req) = "" /\ Rejected(session.req)
    /\ [what |-> "Invalid unlock time format", success |-> FALSE] \in session.sent

\* the monitor has left its loop: no poll and no update from now on
MonitorStaysStopped ==
    /\ session'.monitor = "stopped"
    /\ session'.polls = session.polls
    /\ competitorFees' = competitorFees

\* C37: when the handler has returned, the context of the monitor it
\* started is cancelled; a cancelled context makes the monitor leave its
\* loop; and from then on it polls no more and updates no competitor fee.
C37_MonitorStops ==
    /\ [](sys = "session" /\ session.pc = "returned" /\ session.monitor # "none"
            => session.warfareCtx = "cancelled")
    /\ (sys = "session" /\ session.pc # "idle" /\ session.warfareCtx = "cancelled")
            ~> (session.pc # "idle" /\ session.monitor = "stopped")
    /\ [][(sys = "session" /\ session.pc # "idle" /\ session.monitor = "stopped")
            => MonitorStaysStopped]_vars

\* the monitor has polled, updated a competitor fee and then stopped
C37_Witness ==
    /\ sys = "session"
    /\ session.pc = "returned" /\ session.monitor = "stopped"
    /\ session.polls > 0 /\ competitorFees["claim"] > 0

\* the snapshots the history holds when total were made and last is the
\* latest one: the last total of them, in arrival order
MostRecent(last, total) ==
    [k \in 1..total |-> (last + SnapshotIds - (total - k)) % SnapshotIds]

\* C36: when no call is inside the append, the fee history holds at most
\* MaxHistory snapshots, and they are the most recent ones in arrival order.
C36_HistoryIsRecent ==
    (sys \in {"fees", "analytics"} /\ \A w \in Workers : calcpc[w] # "appending") =>
        /\ Len(history.seq) <= MaxHistory
        /\ Len(history.seq) = feeHistory
        /\ history.seq = MostRecent(history.last, history.total)

====
